---- MODULE Spec2Model ----
(***************************************************************************)
(* Researchly Assist: the realtime AI session and caching layer.           *)
(*                                                                         *)
(* The model follows the server's controller (the Gemini context-cache     *)
(* version of controllers/ai), the Socket.IO gateway (websocket/index.ts,  *)
(* websocket/auth, websocket/handlers/ai.ts) and the ChatSession schema.   *)
(* Every `await` of a handler is a step boundary: the external effect of   *)
(* the awaited call and the synchronous code up to the next `await` form   *)
(* one action.  The final session save of a chat and its completion event  *)
(* are kept as two steps, as are the other store calls whose continuation  *)
(* emits the response.                                                     *)
(*                                                                         *)
(* Text (messages, chunks, responses) is a sequence of tokens; string      *)
(* concatenation `+=` is \o.  Message timestamps are not modelled.         *)
(*                                                                         *)
(* Mongoose's save() of a loaded document sends the modified paths only:   *)
(* messages.push(..) becomes an atomic $push of the pushed entries, a      *)
(* changed scalar becomes a $set, both filtered by the document's _id; a   *)
(* save that matches no stored document rejects.  A `required` String path *)
(* rejects the empty string at validation, before anything is sent.        *)
(***************************************************************************)
EXTENDS Integers, Sequences, FiniteSets, TLC

\* ---------------------------------------------------------------- bounds
MaxInv == 2
MaxChunks == 2
MaxCaches == 2
MaxTime == 4000
TickStep == 2000
MaxSockets == 3
MaxCalls == 3

\* ------------------------------------------------------ program constants
CACHE_TTL_SECONDS == 3600

\* null of a string-valued field, and null of a nullable number (a cache name,
\* a date, a document that was not found: _id None).
Null == "null"
None == 0

Users == {"u1", "u2"}

\* The paper store the controller reads: p1 is u1's paper with a PDF large
\* enough for the provider's context cache, p2 is u2's paper whose PDF is
\* below the provider's minimum cacheable size, p3 is a paper of u1 with no
\* file, and p4 names no stored paper.
PaperIds == {"p1", "p2", "p3", "p4"}
StoredPapers == {"p1", "p2", "p3"}
PaperOwner == [p \in StoredPapers |-> IF p = "p2" THEN "u2" ELSE "u1"]
PaperHasFile == [p \in StoredPapers |-> p # "p3"]
PaperCacheable == [p \in StoredPapers |-> p = "p1"]

Invs == 1..MaxInv
Kinds == {"summary", "chat", "history", "clear"}
\* The message an inbound ai:chat carries: a text of its own, or the empty one.
MsgsOf(i) == {<< <<"q1", "q2", "q3", "q4">>[i] >>, <<>>}
\* The fragments the model streams, in the order it produces them; a stream
\* ends after any number of them, zero included.
ModelChunks == <<"a", "b", "c", "d">>
CacheNames == 1..MaxCaches

\* The inbound payload of invocation i: paperId and message as the client
\* chose them, and an extra userId field naming a user of the client's
\* choice (the first event names u2, the later ones u1).
ClaimedUser(i) == IF i = 1 THEN "u2" ELSE "u1"
Payload(i, p, m) == [paperId |-> p, message |-> m, userId |-> ClaimedUser(i)]

Tokens ==
  {[kind |-> "missing", userId |-> Null],
   [kind |-> "expired", userId |-> "u1"],
   [kind |-> "invalid", userId |-> "u1"],
   [kind |-> "other", userId |-> "u1"],
   [kind |-> "valid", userId |-> "u1"],
   [kind |-> "valid", userId |-> "u2"]}

VARIABLES
  conn,         \* the socket: handshake token, state, bound user, handlers
  inv,          \* the handler invocations (one per inbound event)
  out,          \* the events each invocation has emitted on the socket
  sessions,     \* the ChatSession collection, by (paperId, userId)
  nextSid,      \* next ChatSession _id
  summaries,    \* Paper.summary of each stored paper
  liveCaches,   \* the provider's live cached contents
  nextCache,    \* next cache name the provider hands out
  now,          \* the clock, in seconds
  rag,          \* the retrieval-index controller: its sessions, index, invocations
  client        \* the browser's SocketManager and the sockets it has opened

vars == <<conn, inv, out, sessions, nextSid, summaries, liveCaches, nextCache, now, rag, client>>

\* The state of the gateway and of the context-cache controller.
serverVars == <<conn, inv, out, sessions, nextSid, summaries, liveCaches, nextCache, now>>

Keys == PaperIds \X Users
Key(i) == <<inv[i].paperId, inv[i].userId>>

\* findOne's null: no document.  An invocation's `doc` is the session document
\* it holds in memory; `loaded` keeps the cache fields that document had when
\* getOrCreateChatSession returned it.
NoDoc == [id |-> None, geminiCacheName |-> None, cacheExpiresAt |-> None, messages |-> <<>>]

IdleInv ==
  [kind |-> "idle", pc |-> "idle", paperId |-> Null, userId |-> Null,
   message |-> <<>>, doc |-> NoDoc, loaded |-> [name |-> None, expiry |-> None],
   dirty |-> FALSE, cacheName |-> None,
   reval |-> "none", del |-> "none", acc |-> <<>>, err |-> Null]

\* The retrieval-index controller serves u1: p1 is u1's paper with a PDF, p3
\* has no file, p4 names no stored paper.
RagUser == "u1"
RagPapers == {"p1", "p3", "p4"}

\* findOne's null for the retrieval-index schema, whose session carries
\* isIndexed (default false) instead of the cache fields.
RagNoDoc == [id |-> None, isIndexed |-> FALSE, messages |-> <<>>]

\* ChatSession.create({paperId, userId, messages: []}) with isIndexed's default.
RagNewSessionDoc(id) == [id |-> id, isIndexed |-> FALSE, messages |-> <<>>]

RagIdle ==
  [kind |-> "idle", pc |-> "idle", paperId |-> Null, message |-> <<>>,
   doc |-> RagNoDoc, context |-> FALSE, acc |-> <<>>, err |-> Null]

\* No session, an empty index: `vectors` counts the copies of a paper's
\* passages its namespace holds, `upserts` the indexDocuments calls made on
\* behalf of each session _id.
RagInit ==
  [sessions |-> [p \in RagPapers |-> RagNoDoc],
   nextSid |-> 1,
   vectors |-> [p \in RagPapers |-> 0],
   upserts |-> [id \in 1..MaxInv |-> 0],
   inv |-> [i \in Invs |-> RagIdle],
   out |-> [i \in Invs |-> <<>>]]

\* new SocketManager(): socket and connectionPromise are null, no socket has
\* been opened and no connect() has returned; `token` says whether
\* localStorage holds auth_token.
SockIds == 1..MaxSockets
ClientInit(token) ==
  [token |-> token, socket |-> None, connectionPromise |-> None,
   socks |-> [s \in SockIds |-> "none"],
   promises |-> <<>>, returned |-> <<>>]

\* ------------------------------------------------------- pure operators

\* ChatSession.create({paperId, userId, messages: []}) with the schema defaults.
NewSessionDoc(id) ==
  [id |-> id, geminiCacheName |-> None, cacheExpiresAt |-> None, messages |-> <<>>]

\* Faulty variant: the stored expiry is not compared with the clock.
LocallyValid_IgnoresExpiry(doc, t) ==
  /\ doc.geminiCacheName # None
  /\ doc.cacheExpiresAt # None

\* getOrCreateCache's test of the stored handle against the clock.
LocallyValid(doc, t) ==
  /\ doc.geminiCacheName # None
  /\ doc.cacheExpiresAt # None
  /\ doc.cacheExpiresAt > t

\* Faulty variant: the expiry is the creation time itself.
ExpiryFrom_NoTtl(t) == t

\* new Date(Date.now() + CACHE_TTL_SECONDS * 1000), in seconds.
ExpiryFrom(t) == t + CACHE_TTL_SECONDS

\* The two entries chatWithPaperStream pushes.
Exchange(message, fullResponse) ==
  << [role |-> "user", content |-> message],
     [role |-> "assistant", content |-> fullResponse] >>

\* ChatMessageSchema: content is a required String, so "" fails validation.
ValidMessages(ms) == \A k \in 1..Len(ms) : ms[k].content # <<>>

\* Whether a save() of `doc` finds its stored document.
Stored(db, key, doc) == db[key] # NoDoc /\ db[key].id = doc.id

\* Faulty variant: the save of the cache fields sends the name alone.
SetCacheFields_NameOnly(stored, doc) ==
  [stored EXCEPT !.geminiCacheName = doc.geminiCacheName]

\* The stored document after save() of the cache fields ($set).
SetCacheFields(stored, doc) ==
  [stored EXCEPT !.geminiCacheName = doc.geminiCacheName,
                 !.cacheExpiresAt = doc.cacheExpiresAt]

\* Faulty variant: save() writes the whole in-memory array back (last write wins).
PushMessages_Overwrite(stored, doc, dirty, pushed) ==
  LET s == IF dirty THEN SetCacheFields(stored, doc) ELSE stored
  IN  [s EXCEPT !.messages = doc.messages \o pushed]

\* Faulty variant: the pushed entries are put in front of the stored ones.
PushMessages_Prepends(stored, doc, dirty, pushed) ==
  LET s == IF dirty THEN SetCacheFields(stored, doc) ELSE stored
  IN  [s EXCEPT !.messages = pushed \o @]

\* The stored document after save() of pushed entries ($push $each), with
\* the cache fields too when they were modified in memory.
PushMessages(stored, doc, dirty, pushed) ==
  LET s == IF dirty THEN SetCacheFields(stored, doc) ELSE stored
  IN  [s EXCEPT !.messages = @ \o pushed]

\* getChatHistory's result: session?.messages || [].
HistoryOf(db, key) == IF db[key] = NoDoc THEN <<>> ELSE db[key].messages

\* jwt.verify(token, JWT_SECRET): the decoded payload, or the error thrown.
JwtVerify(token) ==
  CASE token.kind = "valid" -> [ok |-> TRUE, userId |-> token.userId, error |-> Null]
    [] token.kind = "expired" -> [ok |-> FALSE, userId |-> Null, error |-> "TokenExpiredError"]
    [] token.kind = "invalid" -> [ok |-> FALSE, userId |-> Null, error |-> "JsonWebTokenError"]
    [] OTHER -> [ok |-> FALSE, userId |-> Null, error |-> "Error"]

\* Faulty variant: a missing token is let through without a user.
AuthResult_Anonymous(token) ==
  IF token.kind = "missing"
  THEN [user |-> Null, error |-> Null]
  ELSE LET d == JwtVerify(token)
       IN  IF d.ok THEN [user |-> d.userId, error |-> Null]
           ELSE [user |-> Null, error |-> "Invalid token"]

\* authenticateSocket: the user bound to the socket and the error passed to next().
AuthResult(token) ==
  IF token.kind = "missing"
  THEN [user |-> Null, error |-> "Authentication required"]
  ELSE LET d == JwtVerify(token)
       IN  IF d.ok THEN [user |-> d.userId, error |-> Null]
           ELSE IF d.error = "TokenExpiredError" THEN [user |-> Null, error |-> "Token expired"]
           ELSE IF d.error = "JsonWebTokenError" THEN [user |-> Null, error |-> "Invalid token"]
           ELSE [user |-> Null, error |-> "Authentication failed"]

\* ------------------------------------------------------------- events

Event(name, paperId, data) == [ev |-> name, paperId |-> paperId, data |-> data]

\* The invocation whose event arrived last.
LastStarted ==
  CHOOSE j \in Invs : inv[j].kind # "idle" /\ \A k \in Invs : k > j => inv[k].kind = "idle"

\* Faulty variant: paperId is kept in a variable the handlers share, so an event is
\* tagged with the paperId of the request that arrived last.
Emit_LastRequest(i, name, data) ==
  out' = IF conn.state = "closed" THEN out
         ELSE [out EXCEPT ![i] = Append(@, Event(name, inv[LastStarted].paperId, data))]

\* socket.emit(name, {paperId, ..}) with the paperId of the handler's payload;
\* a packet written to a socket that has disconnected is dropped.
Emit(i, name, data) ==
  out' = IF conn.state = "closed" THEN out
         ELSE [out EXCEPT ![i] = Append(@, Event(name, inv[i].paperId, data))]

ErrorEvent(kind) == IF kind = "summary" THEN "ai:summary:error" ELSE "ai:chat:error"
ChunkEvent(kind) == IF kind = "summary" THEN "ai:summary:chunk" ELSE "ai:chat:chunk"
CompleteEvent(kind) == IF kind = "summary" THEN "ai:summary:complete" ELSE "ai:chat:complete"

\* The catch blocks' messages.
CatchMessage(kind) ==
  CASE kind = "summary" -> "Failed to generate summary"
    [] kind = "chat" -> "Failed to process chat message"
    [] kind = "history" -> "Failed to get chat history"
    [] OTHER -> "Failed to clear chat history"

\* An invocation ends with an error event carrying `message` (a one-token
\* text); `cause` is the error it logs.
Fail(i, cause, message) ==
  /\ inv' = [inv EXCEPT ![i].pc = "done", ![i].err = cause]
  /\ Emit(i, ErrorEvent(inv[i].kind), message)

Thrown(i, cause) == Fail(i, cause, <<CatchMessage(inv[i].kind)>>)

\* ------------------------------------------------------------- gateway

\* The summaries the stored papers start with: p1 was summarised before.
InitSummaries == [p \in StoredPapers |-> IF p = "p1" THEN <<"old">> ELSE <<>>]

Init ==
  /\ conn \in {[state |-> "connecting", token |-> t, user |-> Null,
                handlerUser |-> Null, error |-> Null] : t \in Tokens}
  /\ inv = [i \in Invs |-> IdleInv]
  /\ out = [i \in Invs |-> <<>>]
  /\ sessions = [k \in Keys |-> NoDoc]
  /\ nextSid = 1
  /\ summaries = InitSummaries
  /\ liveCaches = {}
  /\ nextCache = 1
  /\ now = 0
  /\ rag = RagInit
  /\ client = ClientInit(TRUE)

\* io.use(authenticateSocket)
Authenticate ==
  /\ conn.state = "connecting"
  /\ LET r == AuthResult(conn.token)
     IN  conn' = [conn EXCEPT !.state = IF r.error = Null THEN "authenticated" ELSE "rejected",
                              !.user = r.user, !.error = r.error]
  /\ UNCHANGED <<inv, out, sessions, nextSid, summaries, liveCaches, nextCache, now, rag, client>>

\* io.on('connection'): registerAIHandlers captures socket.user.userId.
OnConnection ==
  /\ conn.state = "authenticated"
  /\ conn' = [conn EXCEPT !.state = "active", !.handlerUser = conn.user]
  /\ UNCHANGED <<inv, out, sessions, nextSid, summaries, liveCaches, nextCache, now, rag, client>>

\* Faulty variant: the handler takes the user from the payload when it names one.
Start_TrustsPayload(i, kind, p, m) ==
  /\ conn.state = "active"
  /\ conn.handlerUser # Null
  /\ inv[i].kind = "idle"
  /\ \A j \in Invs : j < i => inv[j].kind # "idle"
  /\ inv' = [inv EXCEPT ![i] =
       [IdleInv EXCEPT !.kind = kind, !.paperId = Payload(i, p, m).paperId,
                       !.userId = Payload(i, p, m).userId,
                       !.message = IF kind = "chat" THEN Payload(i, p, m).message ELSE <<>>,
                       !.pc = CASE kind \in {"summary", "chat"} -> "paper"
                                [] kind = "history" -> "h_find"
                                [] OTHER -> "x_find"]]
  /\ UNCHANGED <<conn, out, sessions, nextSid, summaries, liveCaches, nextCache, now, rag, client>>

\* An inbound ai:summary, ai:chat, ai:chat:history or ai:chat:clear event.
\* Invocations are numbered in the order their events arrive.  The handler
\* destructures paperId (and message) from the payload; the user is the one
\* registerAIHandlers captured.
Start(i, kind, p, m) ==
  /\ conn.state = "active"
  /\ conn.handlerUser # Null
  /\ inv[i].kind = "idle"
  /\ \A j \in Invs : j < i => inv[j].kind # "idle"
  /\ inv' = [inv EXCEPT ![i] =
       [IdleInv EXCEPT !.kind = kind, !.paperId = Payload(i, p, m).paperId,
                       !.userId = conn.handlerUser,
                       !.message = IF kind = "chat" THEN Payload(i, p, m).message ELSE <<>>,
                       !.pc = CASE kind \in {"summary", "chat"} -> "paper"
                                [] kind = "history" -> "h_find"
                                [] OTHER -> "x_find"]]
  /\ UNCHANGED <<conn, out, sessions, nextSid, summaries, liveCaches, nextCache, now, rag, client>>

Tick ==
  /\ now + TickStep <= MaxTime
  /\ now' = now + TickStep
  /\ UNCHANGED <<conn, inv, out, sessions, nextSid, summaries, liveCaches, nextCache, rag, client>>

\* The provider drops a cached content (its TTL ran out, or it evicted early).
Evict(c) ==
  /\ c \in liveCaches
  /\ liveCaches' = liveCaches \ {c}
  /\ UNCHANGED <<conn, inv, out, sessions, nextSid, summaries, nextCache, now, rag, client>>

\* ------------------------------------------- getPaperForAI (both streams)

\* Faulty variant: the `return` after callbacks.onError(error) is missing, so the
\* stream goes on after the error event.
PaperLookup_NoReturn(i) ==
  /\ inv[i].pc = "paper"
  /\ LET p == inv[i].paperId
         found == p \in StoredPapers /\ PaperOwner[p] = inv[i].userId
     IN  IF found /\ PaperHasFile[p]
         THEN /\ inv' = [inv EXCEPT ![i].pc =
                          IF inv[i].kind = "chat" THEN "c_find" ELSE "stream"]
              /\ UNCHANGED out
         ELSE /\ inv' = [inv EXCEPT ![i].pc = "stream"]
              /\ Emit(i, ErrorEvent(inv[i].kind), <<"Paper not found">>)
  /\ UNCHANGED <<conn, sessions, nextSid, summaries, liveCaches, nextCache, now, rag, client>>

\* Faulty variant: the paper is looked up by _id alone and its owner compared
\* afterwards, with an answer of its own.
PaperLookup_LeaksOwnership(i) ==
  /\ inv[i].pc = "paper"
  /\ LET p == inv[i].paperId
     IN  \/ /\ p \notin StoredPapers
            /\ Fail(i, "Paper not found", <<"Paper not found">>)
         \/ /\ p \in StoredPapers /\ PaperOwner[p] # inv[i].userId
            /\ Fail(i, "Access denied", <<"Access denied">>)
         \/ /\ p \in StoredPapers /\ PaperOwner[p] = inv[i].userId /\ ~PaperHasFile[p]
            /\ Fail(i, "Paper has no PDF file", <<"Paper has no PDF file">>)
         \/ /\ p \in StoredPapers /\ PaperOwner[p] = inv[i].userId /\ PaperHasFile[p]
            /\ \/ /\ inv' = [inv EXCEPT ![i].pc =
                              IF inv[i].kind = "chat" THEN "c_find" ELSE "stream"]
                  /\ UNCHANGED out
               \/ Thrown(i, "fetch failed")
  /\ UNCHANGED <<conn, sessions, nextSid, summaries, liveCaches, nextCache, now, rag, client>>

\* Paper.findOne({_id: paperId, userId}) and the fetch of the PDF.
PaperLookup(i) ==
  /\ inv[i].pc = "paper"
  /\ LET p == inv[i].paperId
         found == p \in StoredPapers /\ PaperOwner[p] = inv[i].userId
     IN  \/ /\ ~found
            /\ Fail(i, "Paper not found", <<"Paper not found">>)
         \/ /\ found /\ ~PaperHasFile[p]
            /\ Fail(i, "Paper has no PDF file", <<"Paper has no PDF file">>)
         \/ /\ found /\ PaperHasFile[p]
            /\ \/ /\ inv' = [inv EXCEPT ![i].pc =
                              IF inv[i].kind = "chat" THEN "c_find" ELSE "stream"]
                  /\ UNCHANGED out
               \/ Thrown(i, "fetch failed")
  /\ UNCHANGED <<conn, sessions, nextSid, summaries, liveCaches, nextCache, now, rag, client>>

\* ------------------------------------------------------ getOrCreateCache

\* The synchronous code after the session is loaded: the test of the stored
\* handle, then the await of cacheManager.get or of cacheManager.create.
AfterLoad(i, doc) ==
  inv' = [inv EXCEPT ![i].doc = doc,
                     ![i].loaded = [name |-> doc.geminiCacheName,
                                    expiry |-> doc.cacheExpiresAt],
                     ![i].pc = IF LocallyValid(doc, now) THEN "c_validate" ELSE "c_create"]

\* getOrCreateChatSession: ChatSession.findOne({paperId, userId}).
SessionFind(i) ==
  /\ inv[i].pc = "c_find"
  /\ IF sessions[Key(i)] # NoDoc
     THEN AfterLoad(i, sessions[Key(i)])
     ELSE inv' = [inv EXCEPT ![i].pc = "c_insert"]
  /\ UNCHANGED <<conn, out, sessions, nextSid, summaries, liveCaches, nextCache, now, rag, client>>

\* getOrCreateChatSession: ChatSession.create(..); the unique index on
\* (paperId, userId) rejects a second document.
SessionCreate(i) ==
  /\ inv[i].pc = "c_insert"
  /\ IF sessions[Key(i)] = NoDoc
     THEN /\ sessions' = [sessions EXCEPT ![Key(i)] = NewSessionDoc(nextSid)]
          /\ nextSid' = nextSid + 1
          /\ AfterLoad(i, NewSessionDoc(nextSid))
          /\ UNCHANGED out
     ELSE /\ Thrown(i, "duplicate key")
          /\ UNCHANGED <<sessions, nextSid>>
  /\ UNCHANGED <<conn, summaries, liveCaches, nextCache, now, rag, client>>

\* Faulty variant: the `return` of the confirmed handle is missing, so a confirmed
\* handle falls through to creation.
Revalidate_Recreates(i) ==
  /\ inv[i].pc = "c_validate"
  /\ IF inv[i].doc.geminiCacheName \in liveCaches
     THEN inv' = [inv EXCEPT ![i].reval = "ok", ![i].pc = "c_create"]
     ELSE inv' = [inv EXCEPT ![i].doc.geminiCacheName = None,
                             ![i].doc.cacheExpiresAt = None,
                             ![i].dirty = TRUE,
                             ![i].reval = "failed", ![i].pc = "c_create"]
  /\ UNCHANGED <<conn, out, sessions, nextSid, summaries, liveCaches, nextCache, now, rag, client>>

\* Faulty variant: a rejected remote check is ignored and the stored handle is
\* returned on the strength of its expiry.
Revalidate_TrustsExpiry(i) ==
  /\ inv[i].pc = "c_validate"
  /\ inv' = [inv EXCEPT ![i].cacheName = inv[i].doc.geminiCacheName,
                        ![i].reval = IF inv[i].doc.geminiCacheName \in liveCaches
                                     THEN "ok" ELSE "failed",
                        ![i].pc = "c_fetch"]
  /\ UNCHANGED <<conn, out, sessions, nextSid, summaries, liveCaches, nextCache, now, rag, client>>

\* cacheManager.get(session.geminiCacheName) inside the try: on success the
\* stored handle is returned, on failure both fields are nulled in memory.
Revalidate(i) ==
  /\ inv[i].pc = "c_validate"
  /\ IF inv[i].doc.geminiCacheName \in liveCaches
     THEN inv' = [inv EXCEPT ![i].cacheName = inv[i].doc.geminiCacheName,
                             ![i].reval = "ok", ![i].pc = "c_fetch"]
     ELSE inv' = [inv EXCEPT ![i].doc.geminiCacheName = None,
                             ![i].doc.cacheExpiresAt = None,
                             ![i].dirty = TRUE,
                             ![i].reval = "failed", ![i].pc = "c_create"]
  /\ UNCHANGED <<conn, out, sessions, nextSid, summaries, liveCaches, nextCache, now, rag, client>>

\* Faulty variant: the 'too small' rejection is rethrown like any other.
OnTooSmall_Rethrows(i) == Thrown(i, "too small")

\* tryCreateCache's catch of an error whose message includes 'too small':
\* null is returned, getOrCreateCache returns it without saving, and the
\* chat goes on to the model without a cache.
OnTooSmall(i) ==
  /\ inv' = [inv EXCEPT ![i].cacheName = None, ![i].pc = "stream"]
  /\ UNCHANGED out

\* Faulty variant: a new handle is stored under the expiry the session already had.
CacheCreate_KeepsOldExpiry(i) ==
  /\ inv[i].pc = "c_create"
  /\ \/ /\ PaperCacheable[inv[i].paperId]
        /\ nextCache <= MaxCaches
        /\ liveCaches' = liveCaches \cup {nextCache}
        /\ nextCache' = nextCache + 1
        /\ inv' = [inv EXCEPT ![i].cacheName = nextCache,
                              ![i].doc.geminiCacheName = nextCache,
                              ![i].doc.cacheExpiresAt =
                                 IF @ # None THEN @ ELSE ExpiryFrom(now),
                              ![i].dirty = TRUE,
                              ![i].pc = "c_cachesave"]
        /\ UNCHANGED out
     \/ /\ ~PaperCacheable[inv[i].paperId]
        /\ OnTooSmall(i)
        /\ UNCHANGED <<liveCaches, nextCache>>
     \/ /\ Thrown(i, "cache create failed")
        /\ UNCHANGED <<liveCaches, nextCache>>
  /\ UNCHANGED <<conn, sessions, nextSid, summaries, now, rag, client>>

\* Faulty variant: every rejection of the create is taken like 'too small', and the
\* chat goes on without a cache.
CacheCreate_FallsBack(i) ==
  /\ inv[i].pc = "c_create"
  /\ \/ /\ PaperCacheable[inv[i].paperId]
        /\ nextCache <= MaxCaches
        /\ liveCaches' = liveCaches \cup {nextCache}
        /\ nextCache' = nextCache + 1
        /\ inv' = [inv EXCEPT ![i].cacheName = nextCache,
                              ![i].doc.geminiCacheName = nextCache,
                              ![i].doc.cacheExpiresAt = ExpiryFrom(now),
                              ![i].dirty = TRUE,
                              ![i].pc = "c_cachesave"]
        /\ UNCHANGED out
     \/ /\ ~PaperCacheable[inv[i].paperId]
        /\ OnTooSmall(i)
        /\ UNCHANGED <<liveCaches, nextCache>>
     \/ /\ inv' = [inv EXCEPT ![i].cacheName = None, ![i].pc = "stream",
                              ![i].err = "cache create failed"]
        /\ UNCHANGED <<out, liveCaches, nextCache>>
  /\ UNCHANGED <<conn, sessions, nextSid, summaries, now, rag, client>>

\* tryCreateCache: cacheManager.create(..) gives a new name, or rejects with
\* "too small" (null is returned), or rejects otherwise (rethrown).
CacheCreate(i) ==
  /\ inv[i].pc = "c_create"
  /\ \/ /\ PaperCacheable[inv[i].paperId]
        /\ nextCache <= MaxCaches
        /\ liveCaches' = liveCaches \cup {nextCache}
        /\ nextCache' = nextCache + 1
        /\ inv' = [inv EXCEPT ![i].cacheName = nextCache,
                              ![i].doc.geminiCacheName = nextCache,
                              ![i].doc.cacheExpiresAt = ExpiryFrom(now),
                              ![i].dirty = TRUE,
                              ![i].pc = "c_cachesave"]
        /\ UNCHANGED out
     \/ /\ ~PaperCacheable[inv[i].paperId]
        /\ OnTooSmall(i)
        /\ UNCHANGED <<liveCaches, nextCache>>
     \/ /\ Thrown(i, "cache create failed")
        /\ UNCHANGED <<liveCaches, nextCache>>
  /\ UNCHANGED <<conn, sessions, nextSid, summaries, now, rag, client>>

\* getOrCreateCache's session.save() of the new handle.
CacheSave(i) ==
  /\ inv[i].pc = "c_cachesave"
  /\ IF Stored(sessions, Key(i), inv[i].doc)
     THEN /\ sessions' = [sessions EXCEPT ![Key(i)] = SetCacheFields(@, inv[i].doc)]
          /\ inv' = [inv EXCEPT ![i].dirty = FALSE, ![i].pc = "c_fetch"]
          /\ UNCHANGED out
     ELSE /\ Thrown(i, "document not found")
          /\ UNCHANGED sessions
  /\ UNCHANGED <<conn, nextSid, summaries, liveCaches, nextCache, now, rag, client>>

\* ---------------------------------------------------- chatWithPaperStream

\* cacheManager.get(cacheName) before getGenerativeModelFromCachedContent.
CacheFetch(i) ==
  /\ inv[i].pc = "c_fetch"
  /\ IF inv[i].cacheName \in liveCaches
     THEN inv' = [inv EXCEPT ![i].pc = "stream"] /\ UNCHANGED out
     ELSE Thrown(i, "cached content not found")
  /\ UNCHANGED <<conn, sessions, nextSid, summaries, liveCaches, nextCache, now, rag, client>>

\* Faulty variant: the loaded messages are replayed newest first.
ReplayedHistory_NewestFirst(i) ==
  [k \in 1..Len(inv[i].doc.messages) |->
     LET m == inv[i].doc.messages[Len(inv[i].doc.messages) + 1 - k]
     IN  [role |-> IF m.role = "assistant" THEN "model" ELSE "user", text |-> m.content]]

\* The history chatWithPaperStream hands to startChat: the loaded session's
\* messages in stored order with assistant mapped to model (after the two
\* document turns when no cache is used); the new message is sent last.
ReplayedHistory(i) ==
  [k \in 1..Len(inv[i].doc.messages) |->
     [role |-> IF inv[i].doc.messages[k].role = "assistant" THEN "model" ELSE "user",
      text |-> inv[i].doc.messages[k].content]]

\* What the chat hands to the model: the cached content, or the document
\* inline in front of the replayed history.
ModelContext(i) ==
  [cache |-> inv[i].cacheName, inline |-> inv[i].cacheName = None,
   history |-> ReplayedHistory(i), message |-> inv[i].message]

\* ------------------------------------------------ the model's stream

\* The number of fragments the stream has produced (each is one token).
ChunkCount(i) == Len(inv[i].acc)

\* Faulty variant: the accumulator takes the new fragment in front.
StreamChunk_Prepends(i) ==
  /\ inv[i].pc = "stream"
  /\ ChunkCount(i) < MaxChunks
  /\ LET c == <<ModelChunks[ChunkCount(i) + 1]>>
     IN  /\ inv' = [inv EXCEPT ![i].acc = c \o @]
         /\ Emit(i, ChunkEvent(inv[i].kind), c)
  /\ UNCHANGED <<conn, sessions, nextSid, summaries, liveCaches, nextCache, now, rag, client>>

\* for await (const chunk of result.stream): accumulate, then onChunk.
StreamChunk(i) ==
  /\ inv[i].pc = "stream"
  /\ ChunkCount(i) < MaxChunks
  /\ LET c == <<ModelChunks[ChunkCount(i) + 1]>>
     IN  /\ inv' = [inv EXCEPT ![i].acc = @ \o c]
         /\ Emit(i, ChunkEvent(inv[i].kind), c)
  /\ UNCHANGED <<conn, sessions, nextSid, summaries, liveCaches, nextCache, now, rag, client>>

\* Faulty variant: the user's message is persisted before the model is called, so a
\* failing stream leaves it behind.
StreamFail_KeepsUserMessage(i) ==
  /\ inv[i].pc = "stream"
  /\ Thrown(i, "model failed")
  /\ sessions' = [k \in Keys |->
       IF inv[i].kind = "chat" /\ k = Key(i) /\ sessions[k] # NoDoc /\ inv[i].message # <<>>
       THEN [sessions[k] EXCEPT !.messages =
               Append(@, [role |-> "user", content |-> inv[i].message])]
       ELSE sessions[k]]
  /\ UNCHANGED <<conn, nextSid, summaries, liveCaches, nextCache, now, rag, client>>

\* Faulty variant: the summary is saved as it grows, so a failing stream leaves the
\* part it had produced.
StreamFail_SavesPartialSummary(i) ==
  /\ inv[i].pc = "stream"
  /\ Thrown(i, "model failed")
  /\ summaries' = IF inv[i].kind = "summary"
                  THEN [summaries EXCEPT ![inv[i].paperId] = inv[i].acc]
                  ELSE summaries
  /\ UNCHANGED <<conn, sessions, nextSid, liveCaches, nextCache, now, rag, client>>

\* The model call rejects, before the first chunk or between chunks.
StreamFail(i) ==
  /\ inv[i].pc = "stream"
  /\ Thrown(i, "model failed")
  /\ UNCHANGED <<conn, sessions, nextSid, summaries, liveCaches, nextCache, now, rag, client>>

\* Faulty variant: the completion is emitted without waiting for the save.
StreamEnd_SkipsSave(i) ==
  /\ inv[i].pc = "stream"
  /\ inv' = [inv EXCEPT ![i].pc = "saved"]
  /\ UNCHANGED <<conn, out, sessions, nextSid, summaries, liveCaches, nextCache, now, rag, client>>

\* The stream ends: the chat pushes the exchange, the summary sets
\* paper.summary, and save() is awaited.
StreamEnd(i) ==
  /\ inv[i].pc = "stream"
  /\ inv' = [inv EXCEPT ![i].pc = "save"]
  /\ UNCHANGED <<conn, out, sessions, nextSid, summaries, liveCaches, nextCache, now, rag, client>>

\* Faulty variant: a save that finds no stored document writes the document it holds.
ChatSave_Upserts(i) ==
  /\ inv[i].pc = "save" /\ inv[i].kind = "chat"
  /\ LET pushed == Exchange(inv[i].message, inv[i].acc)
     IN  IF ~ValidMessages(pushed)
         THEN Thrown(i, "validation failed") /\ UNCHANGED sessions
         ELSE /\ sessions' = [sessions EXCEPT ![Key(i)] =
                                IF Stored(sessions, Key(i), inv[i].doc)
                                THEN PushMessages(@, inv[i].doc, inv[i].dirty, pushed)
                                ELSE [inv[i].doc EXCEPT !.messages = @ \o pushed]]
              /\ inv' = [inv EXCEPT ![i].doc.messages = @ \o pushed,
                                    ![i].dirty = FALSE, ![i].pc = "saved"]
              /\ UNCHANGED out
  /\ UNCHANGED <<conn, nextSid, summaries, liveCaches, nextCache, now, rag, client>>

\* chatWithPaperStream's session.save() of the pushed exchange.
ChatSave(i) ==
  /\ inv[i].pc = "save" /\ inv[i].kind = "chat"
  /\ LET pushed == Exchange(inv[i].message, inv[i].acc)
     IN  IF ~ValidMessages(pushed)
         THEN Thrown(i, "validation failed") /\ UNCHANGED sessions
         ELSE IF ~Stored(sessions, Key(i), inv[i].doc)
         THEN Thrown(i, "document not found") /\ UNCHANGED sessions
         ELSE /\ sessions' = [sessions EXCEPT ![Key(i)] =
                                PushMessages(@, inv[i].doc, inv[i].dirty, pushed)]
              /\ inv' = [inv EXCEPT ![i].doc.messages = @ \o pushed,
                                    ![i].dirty = FALSE, ![i].pc = "saved"]
              /\ UNCHANGED out
  /\ UNCHANGED <<conn, nextSid, summaries, liveCaches, nextCache, now, rag, client>>

\* generateSummaryStream's paper.save() of paper.summary = fullSummary.
SummarySave(i) ==
  /\ inv[i].pc = "save" /\ inv[i].kind = "summary"
  /\ \/ /\ summaries' = [summaries EXCEPT ![inv[i].paperId] = inv[i].acc]
        /\ inv' = [inv EXCEPT ![i].pc = "saved"]
        /\ UNCHANGED out
     \/ /\ Thrown(i, "paper save failed")
        /\ UNCHANGED summaries
  /\ UNCHANGED <<conn, sessions, nextSid, liveCaches, nextCache, now, rag, client>>

\* callbacks.onComplete(full text)
Complete(i) ==
  /\ inv[i].pc = "saved"
  /\ inv' = [inv EXCEPT ![i].pc = "done"]
  /\ Emit(i, CompleteEvent(inv[i].kind), inv[i].acc)
  /\ UNCHANGED <<conn, sessions, nextSid, summaries, liveCaches, nextCache, now, rag, client>>

\* ---------------------------------------------------------- getChatHistory

\* ChatSession.findOne({paperId, userId}), or the store rejects.
HistoryFind(i) ==
  /\ inv[i].pc = "h_find"
  /\ \/ /\ inv' = [inv EXCEPT ![i].doc.messages = HistoryOf(sessions, Key(i)),
                              ![i].pc = "h_found"]
        /\ UNCHANGED out
     \/ Thrown(i, "storage failed")
  /\ UNCHANGED <<conn, sessions, nextSid, summaries, liveCaches, nextCache, now, rag, client>>

\* The handler emits ai:chat:history:response with the messages found.
HistoryRespond(i) ==
  /\ inv[i].pc = "h_found"
  /\ inv' = [inv EXCEPT ![i].pc = "done"]
  /\ Emit(i, "ai:chat:history:response", inv[i].doc.messages)
  /\ UNCHANGED <<conn, sessions, nextSid, summaries, liveCaches, nextCache, now, rag, client>>

\* --------------------------------------------------------- clearChatHistory

\* ChatSession.findOne({paperId, userId}), or the store rejects.
ClearFind(i) ==
  /\ inv[i].pc = "x_find"
  /\ \/ /\ inv' = [inv EXCEPT ![i].doc = sessions[Key(i)],
                              ![i].pc = IF sessions[Key(i)].geminiCacheName # None
                                        THEN "x_remote" ELSE "x_delete"]
        /\ UNCHANGED out
     \/ Thrown(i, "storage failed")
  /\ UNCHANGED <<conn, sessions, nextSid, summaries, liveCaches, nextCache, now, rag, client>>

\* Faulty variant: the remote delete is not wrapped in its own try, so its rejection
\* reaches the outer catch and the local record stays.
ClearRemote_Propagates(i) ==
  /\ inv[i].pc = "x_remote"
  /\ \/ /\ inv[i].doc.geminiCacheName \in liveCaches
        /\ liveCaches' = liveCaches \ {inv[i].doc.geminiCacheName}
        /\ inv' = [inv EXCEPT ![i].del = "ok", ![i].pc = "x_delete"]
        /\ UNCHANGED out
     \/ /\ UNCHANGED liveCaches
        /\ Fail(i, "remote delete failed", <<CatchMessage("clear")>>)
  /\ UNCHANGED <<conn, sessions, nextSid, summaries, nextCache, now, rag, client>>

\* cacheManager.delete(session.geminiCacheName) in its own try with an empty
\* catch: the delete succeeds, or it rejects and the rejection is dropped.
ClearRemote(i) ==
  /\ inv[i].pc = "x_remote"
  /\ \/ /\ inv[i].doc.geminiCacheName \in liveCaches
        /\ liveCaches' = liveCaches \ {inv[i].doc.geminiCacheName}
        /\ inv' = [inv EXCEPT ![i].del = "ok", ![i].pc = "x_delete"]
     \/ /\ UNCHANGED liveCaches
        /\ inv' = [inv EXCEPT ![i].del = "failed", ![i].pc = "x_delete"]
  /\ UNCHANGED <<conn, out, sessions, nextSid, summaries, nextCache, now, rag, client>>

\* ChatSession.deleteOne({paperId, userId}), or the store rejects.
ClearDelete(i) ==
  /\ inv[i].pc = "x_delete"
  /\ \/ /\ sessions' = [sessions EXCEPT ![Key(i)] = NoDoc]
        /\ inv' = [inv EXCEPT ![i].pc = "x_deleted"]
        /\ UNCHANGED out
     \/ /\ Thrown(i, "storage failed")
        /\ UNCHANGED sessions
  /\ UNCHANGED <<conn, nextSid, summaries, liveCaches, nextCache, now, rag, client>>

\* The handler emits ai:chat:cleared.
ClearRespond(i) ==
  /\ inv[i].pc = "x_deleted"
  /\ inv' = [inv EXCEPT ![i].pc = "done"]
  /\ Emit(i, "ai:chat:cleared", <<>>)
  /\ UNCHANGED <<conn, sessions, nextSid, summaries, liveCaches, nextCache, now, rag, client>>

\* ------------------------------------------------------------ specification

Next ==
  \/ Authenticate
  \/ OnConnection
  \/ \E i \in Invs, k \in Kinds, p \in PaperIds : \E m \in MsgsOf(i) : Start(i, k, p, m)
  \/ \E i \in Invs : PaperLookup(i)
  \/ \E i \in Invs : SessionFind(i)
  \/ \E i \in Invs : SessionCreate(i)
  \/ \E i \in Invs : Revalidate(i)
  \/ \E i \in Invs : CacheCreate(i)
  \/ \E i \in Invs : CacheSave(i)
  \/ \E i \in Invs : CacheFetch(i)
  \/ \E i \in Invs : StreamChunk(i)
  \/ \E i \in Invs : StreamFail(i)
  \/ \E i \in Invs : StreamEnd(i)
  \/ \E i \in Invs : ChatSave(i)
  \/ \E i \in Invs : SummarySave(i)
  \/ \E i \in Invs : Complete(i)
  \/ \E i \in Invs : HistoryFind(i)
  \/ \E i \in Invs : HistoryRespond(i)
  \/ \E i \in Invs : ClearFind(i)
  \/ \E i \in Invs : ClearRemote(i)
  \/ \E i \in Invs : ClearDelete(i)
  \/ \E i \in Invs : ClearRespond(i)
  \/ Tick
  \/ \E c \in CacheNames : Evict(c)

Spec == Init /\ [][Next]_vars

\* ------------------------------------------- a connection that closes

\* Faulty variant: the disconnect handler aborts the invocations in flight.
Disconnect_CancelsInFlight ==
  /\ conn.state = "active"
  /\ conn' = [conn EXCEPT !.state = "closed"]
  /\ inv' = [i \in Invs |->
              IF inv[i].pc \in {"idle", "done"} THEN inv[i]
              ELSE [inv[i] EXCEPT !.pc = "done", !.err = "cancelled"]]
  /\ UNCHANGED <<out, sessions, nextSid, summaries, liveCaches, nextCache, now, rag, client>>

\* The client goes away: socket.on('disconnect') logs, and nothing else runs.
Disconnect ==
  /\ conn.state = "active"
  /\ conn' = [conn EXCEPT !.state = "closed"]
  /\ UNCHANGED <<inv, out, sessions, nextSid, summaries, liveCaches, nextCache, now, rag, client>>

\* The steps of the summary or chat invocation i.
Handler(i) ==
  \/ PaperLookup(i) \/ SessionFind(i) \/ SessionCreate(i) \/ Revalidate(i)
  \/ CacheCreate(i) \/ CacheSave(i) \/ CacheFetch(i)
  \/ StreamChunk(i) \/ StreamFail(i) \/ StreamEnd(i)
  \/ ChatSave(i) \/ SummarySave(i) \/ Complete(i)

\* u1's connection, on which summaries and chats of u1's paper p1 are started
\* and which may close at any moment.
InitClose == Init /\ conn.token = [kind |-> "valid", userId |-> "u1"]

NextClose ==
  \/ Authenticate
  \/ OnConnection
  \/ \E i \in Invs, k \in {"summary", "chat"} : Start(i, k, "p1", <<"q">>)
  \/ Disconnect
  \/ \E i \in Invs : PaperLookup(i)
  \/ \E i \in Invs : SessionFind(i)
  \/ \E i \in Invs : SessionCreate(i)
  \/ \E i \in Invs : Revalidate(i)
  \/ \E i \in Invs : CacheCreate(i)
  \/ \E i \in Invs : CacheSave(i)
  \/ \E i \in Invs : CacheFetch(i)
  \/ \E i \in Invs : StreamChunk(i)
  \/ \E i \in Invs : StreamFail(i)
  \/ \E i \in Invs : StreamEnd(i)
  \/ \E i \in Invs : ChatSave(i)
  \/ \E i \in Invs : SummarySave(i)
  \/ \E i \in Invs : Complete(i)

\* Node runs every continuation whose awaited call has settled, and the
\* provider's and the store's calls settle: each invocation keeps stepping.
SpecClose == InitClose /\ [][NextClose]_vars /\ \A i \in Invs : WF_vars(Handler(i))

\* ------------------------------------------------------------ properties

ChatInv(i) == inv[i].kind = "chat"
Streaming(i) == inv[i].kind \in {"summary", "chat"}

\* The chat's final save was applied.
Saved(i) == inv[i].pc \in {"saved", "done"} /\ inv[i].err = Null

ChunksOf(i) == SelectSeq(out[i], LAMBDA e : e.ev = ChunkEvent(inv[i].kind))
TerminalsOf(i) ==
  SelectSeq(out[i], LAMBDA e : e.ev \in {ErrorEvent(inv[i].kind), CompleteEvent(inv[i].kind)})

RECURSIVE Concat(_)
Concat(events) == IF events = <<>> THEN <<>> ELSE Head(events).data \o Concat(Tail(events))

\* The exchange of chat i sits in `ms` at positions j, j+1 (j odd).
HoldsExchange(ms, i) ==
  \E j \in 1..Len(ms) :
    /\ j % 2 = 1 /\ j + 1 <= Len(ms)
    /\ <<ms[j], ms[j + 1]>> = Exchange(inv[i].message, inv[i].acc)

\* C1: under every interleaving of chats on one (paperId, userId) session the
\* stored list holds exactly two entries per chat whose save was applied to
\* that session document, that chat's user message directly followed by its
\* assistant reply, so its length is always even.
C1_AppendAtomicity ==
  \A k \in Keys :
    LET applied == {i \in Invs : ChatInv(i) /\ Key(i) = k /\ Saved(i)
                                 /\ inv[i].doc.id = sessions[k].id}
    IN  /\ Len(sessions[k].messages) % 2 = 0
        /\ Len(sessions[k].messages) = 2 * Cardinality(applied)
        /\ \A i \in applied : HoldsExchange(sessions[k].messages, i)

\* Two chats that both loaded the empty session before either saved have
\* both completed, and the session holds both exchanges.
C1_Witness ==
  /\ ChatInv(1) /\ ChatInv(2) /\ Key(1) = Key(2)
  /\ inv[1].pc = "done" /\ inv[2].pc = "done" /\ Saved(1) /\ Saved(2)
  /\ Len(inv[1].doc.messages) = 2 /\ Len(inv[2].doc.messages) = 2
  /\ Len(sessions[Key(1)].messages) = 4

\* C2: the step in which clearChatHistory's deleteOne is applied leaves no
\* session record, so getChatHistory's result on that store is the empty
\* list, whatever became of the remote deletion; a remote deletion that
\* fails is followed by the local deletion, never by an error; and
\* ai:chat:cleared is emitted only after the local deletion.
C2_ClearCompleteness ==
  /\ [](\A i \in Invs : inv[i].kind = "clear" =>
          /\ inv[i].err \in {Null, "storage failed"}
          /\ (\E n \in 1..Len(out[i]) : out[i][n].ev = "ai:chat:cleared") =>
               inv[i].pc = "done" /\ inv[i].err = Null)
  /\ [][\A i \in Invs :
          /\ (inv[i].pc = "x_remote" /\ inv'[i].pc # "x_remote") =>
               (inv'[i].pc = "x_delete" /\ out'[i] = out[i])
          /\ (inv'[i].pc = "x_deleted" /\ inv[i].pc # "x_deleted") =>
               /\ inv[i].pc = "x_delete"
               /\ sessions'[Key(i)] = NoDoc
               /\ HistoryOf(sessions', Key(i)) = <<>>
          /\ (inv[i].kind = "clear" /\ inv'[i].pc = "done" /\ inv[i].pc # "done"
              /\ inv'[i].err = Null) => inv[i].pc = "x_deleted"]_vars

\* The remote deletion failed for a session that held messages, and the
\* local record is gone.
C2_Witness ==
  \E i \in Invs :
    /\ inv[i].kind = "clear" /\ inv[i].pc = "done" /\ inv[i].err = Null
    /\ inv[i].del = "failed"
    /\ inv[i].doc.messages # <<>>
    /\ HistoryOf(sessions, Key(i)) = <<>>

\* Every step that changes a stored message list is the applied final save
\* of a chat on that session or a clear's deleteOne.
OnlySaveOrClearWrites ==
  \A k \in Keys :
    sessions'[k].messages # sessions[k].messages =>
      \E i \in Invs :
        /\ Key(i) = k
        /\ \/ ChatInv(i) /\ inv[i].pc = "save" /\ inv'[i].pc = "saved"
           \/ inv[i].kind = "clear" /\ inv[i].pc = "x_delete" /\ inv'[i].pc = "x_deleted"

\* C3: a chat that ends in ai:chat:error has written nothing to the stored
\* messages: no stored entry carries its message, every stored list is made
\* of (user, assistant) pairs, and a chat whose save was applied does not
\* end in an error.
C3_FailedChatAppendsNothing ==
  /\ [](\A i \in Invs : (ChatInv(i) /\ inv[i].err # Null) =>
          \A k \in Keys : \A j \in 1..Len(sessions[k].messages) :
             sessions[k].messages[j] # [role |-> "user", content |-> inv[i].message])
  /\ [](\A k \in Keys : \A j \in 1..Len(sessions[k].messages) :
          /\ sessions[k].messages[j].role = (IF j % 2 = 1 THEN "user" ELSE "assistant")
          /\ j % 2 = 1 => j + 1 <= Len(sessions[k].messages))
  /\ [][OnlySaveOrClearWrites]_vars
  /\ [][\A i \in Invs : inv[i].pc = "saved" => inv'[i].err = Null]_vars

\* A chat failed in mid-stream, after a chunk was emitted, on a session that
\* holds another chat's exchange.
C3_Witness ==
  \E i \in Invs :
    /\ ChatInv(i) /\ inv[i].pc = "done" /\ inv[i].err = "model failed"
    /\ Len(ChunksOf(i)) > 0
    /\ inv[i].message # <<>>
    /\ Len(sessions[Key(i)].messages) = 2

\* C4: the chunk events of a chat carry the model's fragments in the order it
\* produced them, their concatenation is the accumulated response at every
\* moment, and it is the response of the completion event and the content of
\* the assistant entry the chat pushed.
C4_ChunkConcatenation ==
  \A i \in Invs : ChatInv(i) =>
    /\ \A n \in 1..Len(ChunksOf(i)) : ChunksOf(i)[n].data = <<ModelChunks[n]>>
    /\ Concat(ChunksOf(i)) = inv[i].acc
    /\ \A n \in 1..Len(out[i]) :
         out[i][n].ev = "ai:chat:complete" =>
           /\ out[i][n].data = Concat(ChunksOf(i))
           /\ n = Len(ChunksOf(i)) + 1
    /\ Saved(i) =>
         /\ inv[i].doc.messages[Len(inv[i].doc.messages)] =
              [role |-> "assistant", content |-> Concat(ChunksOf(i))]
         /\ Stored(sessions, Key(i), inv[i].doc) =>
              \E j \in 1..Len(sessions[Key(i)].messages) :
                sessions[Key(i)].messages[j] =
                  [role |-> "assistant", content |-> Concat(ChunksOf(i))]

\* A chat completed after two chunks.
C4_Witness ==
  \E i \in Invs :
    /\ ChatInv(i) /\ inv[i].pc = "done" /\ inv[i].err = Null
    /\ Len(ChunksOf(i)) = 2
    /\ out[i][3].ev = "ai:chat:complete"

\* C5: a summary or chat invocation emits at most one terminal event (error
\* or completion of its kind, for its paperId), exactly one once it has
\* ended, an error event exactly when it failed and a completion event
\* exactly when it succeeded, and nothing after the terminal event.
C5_OneTerminalEvent ==
  \A i \in Invs : Streaming(i) =>
    /\ Len(TerminalsOf(i)) <= 1
    /\ inv[i].pc = "done" <=> Len(TerminalsOf(i)) = 1
    /\ \A n \in 1..Len(out[i]) :
         /\ out[i][n].paperId = inv[i].paperId
         /\ out[i][n].ev \in {ChunkEvent(inv[i].kind), ErrorEvent(inv[i].kind),
                               CompleteEvent(inv[i].kind)}
         /\ out[i][n].ev # ChunkEvent(inv[i].kind) => n = Len(out[i])
    /\ inv[i].pc = "done" =>
         out[i][Len(out[i])].ev =
           (IF inv[i].err # Null THEN ErrorEvent(inv[i].kind) ELSE CompleteEvent(inv[i].kind))
    /\ inv[i].pc # "done" => inv[i].err = Null

\* A summary failed in mid-stream and a chat completed.
C5_Witness ==
  \E i, j \in Invs :
    /\ inv[i].kind = "summary" /\ inv[i].pc = "done" /\ inv[i].err = "model failed"
    /\ Len(out[i]) = 2
    /\ ChatInv(j) /\ inv[j].pc = "done" /\ inv[j].err = Null

SmallPaperChat(i) ==
  /\ ChatInv(i)
  /\ inv[i].paperId \in StoredPapers
  /\ ~PaperCacheable[inv[i].paperId]

\* C6 as stated: a chat that goes to creation with a stored handle whose
\* expiry has passed has first attempted the remote revalidation of it.
C6_RevalidatesExpiredHandle ==
  \A i \in Invs :
    (ChatInv(i) /\ inv[i].pc = "c_create" /\ inv[i].doc.geminiCacheName # None
     /\ inv[i].doc.cacheExpiresAt <= now) => inv[i].reval # "none"

\* C6, amended: a stored handle whose expiry is not in the future is never
\* returned by getOrCreateCache and never revalidated: the call goes straight
\* to creation, and what it returns is a name the provider has just created,
\* or null.
C6_ExpiredHandleNeverReused ==
  /\ [](\A i \in Invs :
          (ChatInv(i) /\ inv[i].pc = "c_create" /\ inv[i].doc.geminiCacheName # None) =>
            /\ inv[i].reval = "none"
            /\ inv[i].doc.cacheExpiresAt <= now)
  /\ [][\A i \in Invs :
          (inv'[i].pc = "c_validate" /\ inv[i].pc # "c_validate") =>
            (inv'[i].doc.geminiCacheName # None /\ inv'[i].doc.cacheExpiresAt > now)]_vars
  /\ [][\A i \in Invs :
          (inv[i].pc = "c_create" /\ inv'[i].pc # "c_create") =>
            \/ inv'[i].cacheName = None
            \/ /\ inv'[i].cacheName # inv[i].doc.geminiCacheName
               /\ inv'[i].cacheName \notin liveCaches
               /\ inv'[i].cacheName \in liveCaches']_vars
  /\ [][\A i \in Invs :
          (inv'[i].cacheName # inv[i].cacheName) =>
            inv[i].pc \in {"c_validate", "c_create"}]_vars

\* A chat found the stored handle expired, made no revalidation attempt and
\* holds a newly created handle while the session still stores the old one.
C6_Witness ==
  \E i \in Invs :
    /\ ChatInv(i) /\ inv[i].pc = "c_cachesave" /\ inv[i].reval = "none"
    /\ sessions[Key(i)].geminiCacheName # None
    /\ sessions[Key(i)].cacheExpiresAt <= now
    /\ inv[i].cacheName # sessions[Key(i)].geminiCacheName
    /\ inv[i].cacheName \in liveCaches

\* C7: a getOrCreateCache call whose stored expiry is in the future and whose
\* remote revalidation succeeds returns the stored handle, creates no cache
\* and changes neither the stored session nor the loaded cache fields; such a
\* call never reaches creation.
C7_EnsureFastPath ==
  /\ [](\A i \in Invs : inv[i].reval = "ok" =>
          /\ inv[i].pc \in {"c_fetch", "stream", "save", "saved", "done"}
          /\ inv[i].cacheName # None
          /\ inv[i].cacheName = inv[i].doc.geminiCacheName)
  /\ [][\A i \in Invs :
          (inv[i].pc = "c_validate" /\ inv'[i].reval = "ok") =>
            /\ inv'[i].cacheName = inv[i].doc.geminiCacheName
            /\ inv'[i].doc = inv[i].doc
            /\ ~inv'[i].dirty
            /\ UNCHANGED <<sessions, liveCaches, nextCache>>]_vars

\* A second chat reused the handle the first one created: one cache was ever
\* created, and the session stores the handle with its first expiry.
C7_Witness ==
  /\ ChatInv(1) /\ ChatInv(2) /\ Key(1) = Key(2)
  /\ inv[1].reval = "none" /\ inv[1].cacheName # None
  /\ inv[2].reval = "ok" /\ inv[2].pc = "done" /\ inv[2].err = Null
  /\ inv[2].cacheName = inv[1].cacheName
  /\ nextCache = 2
  /\ sessions[Key(1)].geminiCacheName = inv[1].cacheName
  /\ sessions[Key(1)].cacheExpiresAt = inv[1].doc.cacheExpiresAt

\* C8: for a document below the provider's minimum cacheable size the
\* 'too small' rejection makes getOrCreateCache return null without an error
\* event; the chat then sends the document inline with the stored history,
\* its applied save holds its exchange, and the cache fields stay null in
\* memory and in the store.
C8_UndersizedDegradation ==
  /\ [](\A i \in Invs : SmallPaperChat(i) =>
          /\ inv[i].cacheName = None
          /\ inv[i].doc.geminiCacheName = None /\ inv[i].doc.cacheExpiresAt = None
          /\ sessions[Key(i)].geminiCacheName = None
          /\ sessions[Key(i)].cacheExpiresAt = None
          /\ inv[i].err # "too small"
          /\ inv[i].pc \in {"stream", "save", "saved"} => ModelContext(i).inline
          /\ (Saved(i) /\ Stored(sessions, Key(i), inv[i].doc)) =>
               HoldsExchange(sessions[Key(i)].messages, i))
  /\ [][\A i \in Invs :
          (SmallPaperChat(i) /\ inv[i].pc = "c_create" /\ inv'[i].pc # "c_create"
           /\ inv'[i].err # "cache create failed") =>
            /\ inv'[i].pc = "stream"
            /\ inv'[i].err = Null
            /\ inv'[i].cacheName = None
            /\ out'[i] = out[i]]_vars

\* A chat on the undersized document completed on a session that already
\* held an exchange, and the session's cache fields are null.
C8_Witness ==
  \E i \in Invs :
    /\ SmallPaperChat(i) /\ inv[i].pc = "done" /\ inv[i].err = Null
    /\ Len(ReplayedHistory(i)) = 4
    /\ Len(sessions[Key(i)].messages) = 4
    /\ sessions[Key(i)].geminiCacheName = None

\* C9 as stated: no chat ends in ai:chat:error because the provider no longer
\* holds the handle getOrCreateCache returned.
C9_DroppedHandleAbsorbed ==
  \A i \in Invs : ChatInv(i) => inv[i].err # "cached content not found"

\* C10: the connection is accepted only for a verified token and then has
\* that token's user bound; handlers are registered under that user only; a
\* missing, expired or invalid token leaves the connection connecting or
\* rejected with the matching error, with no handler and no invocation; and
\* every invocation runs on an active connection under the bound user.
C10_AuthBeforeActive ==
  /\ conn.state \in {"authenticated", "active"} =>
       /\ conn.token.kind = "valid"
       /\ conn.user # Null /\ conn.user = conn.token.userId
       /\ conn.error = Null
  /\ conn.handlerUser # Null => (conn.state = "active" /\ conn.handlerUser = conn.user)
  /\ conn.state = "active" => conn.handlerUser # Null
  /\ conn.token.kind # "valid" =>
       /\ conn.state \in {"connecting", "rejected"}
       /\ conn.user = Null /\ conn.handlerUser = Null
  /\ conn.state = "rejected" =>
       /\ conn.token.kind # "valid"
       /\ conn.error = (CASE conn.token.kind = "missing" -> "Authentication required"
                          [] conn.token.kind = "expired" -> "Token expired"
                          [] conn.token.kind = "invalid" -> "Invalid token"
                          [] OTHER -> "Authentication failed")
  /\ \A i \in Invs :
       /\ inv[i].kind # "idle" => (conn.state = "active" /\ inv[i].userId = conn.user)
       /\ conn.state # "active" => out[i] = <<>>

\* A handshake with an expired token has been rejected.
C10_Witness ==
  /\ conn.state = "rejected"
  /\ conn.token.kind = "expired"
  /\ conn.error = "Token expired"

\* C11: every invocation on a connection runs under the user of the token
\* verified at that connection's handshake, whatever its payload carries: a
\* payload that names another user, or another user's paper, changes nothing
\* of it, so the only session records that ever exist are that user's, and
\* the only summaries that ever change are of that user's papers.
C11_IdentityFromHandshake ==
  /\ \A i \in Invs : inv[i].kind # "idle" =>
       /\ conn.token.kind = "valid"
       /\ inv[i].userId = conn.token.userId
       /\ Key(i)[2] = conn.token.userId
  /\ \A k \in Keys : k[2] # conn.token.userId => sessions[k] = NoDoc
  /\ \A p \in StoredPapers :
       PaperOwner[p] # conn.token.userId => summaries[p] = InitSummaries[p]

\* On u1's connection a chat whose payload named u2 was persisted in u1's
\* session, and a clear naming u2's paper has run, under u1.
C11_Witness ==
  /\ conn.token.userId = "u1"
  /\ ChatInv(1) /\ ClaimedUser(1) = "u2" /\ inv[1].pc = "done" /\ Saved(1)
  /\ inv[1].userId = "u1"
  /\ sessions[<<"p1", "u1">>] # NoDoc
  /\ inv[2].kind = "clear" /\ inv[2].paperId = "p2" /\ inv[2].pc = "done"
  /\ inv[2].userId = "u1"

\* A summary or chat request naming a stored paper of another user, and one
\* naming no stored paper.
Foreign(i) ==
  /\ Streaming(i)
  /\ inv[i].paperId \in StoredPapers
  /\ PaperOwner[inv[i].paperId] # inv[i].userId
Absent(i) == Streaming(i) /\ inv[i].paperId \notin StoredPapers

\* What a client sees of a finished invocation, and what the invocation holds,
\* with the paperId it sent (and its message) left out.
Observed(i) ==
  <<[n \in 1..Len(out[i]) |-> <<out[i][n].ev, out[i][n].data>>],
    [inv[i] EXCEPT !.paperId = Null, !.message = <<>>]>>

\* C12: a summary or chat request for another user's paper goes exactly the
\* way of one for a paper that does not exist: the lookup is its only step, it
\* ends with the single error event 'Paper not found', it loads no session,
\* holds no cache and streams nothing; two such requests of one kind cannot be
\* told apart; and when only such requests have run, no session and no cache
\* was created and no summary changed.
C12_NotFoundIndistinguishable ==
  /\ \A i \in Invs : (Foreign(i) \/ Absent(i)) =>
       /\ inv[i].pc \in {"paper", "done"}
       /\ inv[i].doc = NoDoc /\ inv[i].cacheName = None /\ inv[i].acc = <<>>
       /\ inv[i].pc = "paper" => (out[i] = <<>> /\ inv[i].err = Null)
       /\ inv[i].pc = "done" =>
            /\ inv[i].err = "Paper not found"
            /\ out[i] = <<Event(ErrorEvent(inv[i].kind), inv[i].paperId, <<"Paper not found">>)>>
  /\ \A i, j \in Invs :
       (Foreign(i) /\ Absent(j) /\ inv[i].kind = inv[j].kind
        /\ inv[i].pc = "done" /\ inv[j].pc = "done") => Observed(i) = Observed(j)
  /\ (\A i \in Invs : inv[i].kind = "idle" \/ Foreign(i) \/ Absent(i)) =>
       /\ sessions = [k \in Keys |-> NoDoc]
       /\ nextSid = 1
       /\ liveCaches = {} /\ nextCache = 1
       /\ summaries = InitSummaries

\* u1 has asked a chat about u2's paper and a chat about a paper that does not
\* exist, and both have ended.
C12_Witness ==
  /\ ChatInv(1) /\ Foreign(1) /\ inv[1].paperId = "p2" /\ inv[1].pc = "done"
  /\ ChatInv(2) /\ Absent(2) /\ inv[2].pc = "done"
  /\ Len(out[1]) = 1 /\ Len(out[2]) = 1

\* C13 as stated: every getOrCreateChatSession call returns the session of its
\* (paperId, userId), also when another call created it after this one's
\* lookup missed: a chat whose paper was found and has a file never ends
\* without a session in hand, unless the fetch of the file failed.
C13_GetOrCreateIdempotent ==
  \A i \in Invs :
    (ChatInv(i) /\ inv[i].pc = "done" /\ inv[i].doc = NoDoc
     /\ inv[i].paperId \in StoredPapers /\ PaperOwner[inv[i].paperId] = inv[i].userId
     /\ PaperHasFile[inv[i].paperId])
      => inv[i].err \in {"fetch failed"}

\* The events a handler of each kind emits.
EventsOfKind(kind) ==
  CASE kind = "summary" -> {"ai:summary:chunk", "ai:summary:complete", "ai:summary:error"}
    [] kind = "chat" -> {"ai:chat:chunk", "ai:chat:complete", "ai:chat:error"}
    [] kind = "history" -> {"ai:chat:history:response", "ai:chat:error"}
    [] kind = "clear" -> {"ai:chat:cleared", "ai:chat:error"}
    [] OTHER -> {}

\* C14: every event an invocation emits (chunk, completion, error, history
\* response, cleared) is one of its own handler's events and carries the
\* paperId of the request that started it, also while an invocation for
\* another paper is in flight on the same connection.
C14_EventsCarryRequestPaperId ==
  \A i \in Invs : \A n \in 1..Len(out[i]) :
    /\ inv[i].kind # "idle"
    /\ out[i][n].paperId = inv[i].paperId
    /\ out[i][n].ev \in EventsOfKind(inv[i].kind)

\* A chat on p1 has emitted a chunk and is still streaming, while a summary
\* of p3 that was requested after it has already ended with its own event.
C14_Witness ==
  /\ ChatInv(1) /\ inv[1].paperId = "p1" /\ inv[1].pc = "stream" /\ Len(out[1]) = 1
  /\ inv[2].kind = "summary" /\ inv[2].paperId = "p3" /\ inv[2].pc = "done"
  /\ Len(out[2]) = 1 /\ out[2][1].paperId = "p3" /\ out[1][1].paperId = "p1"

SummaryInv(i) == inv[i].kind = "summary"

\* The summary invocations on paper p whose paper.save() was applied.
SummarySaved(p) ==
  {i \in Invs : SummaryInv(i) /\ inv[i].paperId = p
                /\ inv[i].pc \in {"saved", "done"} /\ inv[i].err = Null}

\* C15: a paper's stored summary is the one it started with or the full text
\* of a summary invocation whose stream ended and whose save was applied,
\* never the partial text of a stream that is still running or that failed;
\* the completion event is emitted after that save and carries the full
\* text; an invocation that ends in ai:summary:error has saved nothing.
C15_SummaryOnlyAfterFullStream ==
  /\ \A p \in StoredPapers :
       \/ summaries[p] = InitSummaries[p] /\ SummarySaved(p) = {}
       \/ \E i \in SummarySaved(p) : summaries[p] = inv[i].acc
  /\ \A i \in Invs : SummaryInv(i) =>
       /\ inv[i].acc = Concat(ChunksOf(i))
       /\ \A n \in 1..Len(out[i]) :
            out[i][n].ev = "ai:summary:complete" =>
              /\ out[i][n].data = inv[i].acc
              /\ i \in SummarySaved(inv[i].paperId)
       /\ (\A j \in Invs : j # i => ~SummaryInv(j)) =>
            /\ inv[i].pc \in {"paper", "stream", "save"} =>
                 summaries = InitSummaries
            /\ inv[i].err # Null => summaries = InitSummaries

\* A summary of p1 completed after one fragment and replaced the earlier
\* summary; another summary of p1 then failed after two fragments, and the
\* stored summary is still the first one's full text.
C15_Witness ==
  \E i, j \in Invs :
    /\ SummaryInv(i) /\ SummaryInv(j) /\ inv[i].paperId = "p1" /\ inv[j].paperId = "p1"
    /\ inv[i].pc = "done" /\ inv[i].err = Null /\ inv[i].acc = <<"a">>
    /\ inv[j].pc = "done" /\ inv[j].err = "model failed" /\ inv[j].acc = <<"a", "b">>
    /\ summaries["p1"] = <<"a">>
    /\ InitSummaries["p1"] = <<"old">>

\* The rejections of the provider's and the store's calls that end a summary
\* or a chat.
CallFailures ==
  {"Paper not found", "Paper has no PDF file", "fetch failed", "duplicate key",
   "cache create failed", "document not found", "cached content not found",
   "model failed", "validation failed", "paper save failed"}

InFlight(i) == inv[i].pc \notin {"idle", "done"}

\* C16: after the connection has closed, every summary or chat invocation
\* that was in flight keeps stepping until it has ended; it ends in an error
\* only when one of its provider or storage calls was rejected, and otherwise
\* it has persisted its result in full, the exchange of a chat in its session
\* and the text of a summary in its paper; no stored list ever holds half an
\* exchange and no stored summary a partial text.
C16_DisconnectDoesNotCancel ==
  /\ [](\A i \in Invs : (conn.state = "closed" /\ inv[i].pc = "done") =>
          /\ inv[i].err \in CallFailures \cup {Null}
          /\ (ChatInv(i) /\ inv[i].err = Null) =>
               HoldsExchange(sessions[Key(i)].messages, i)
          /\ (SummaryInv(i) /\ inv[i].err = Null) =>
               /\ i \in SummarySaved(inv[i].paperId)
               /\ \E j \in SummarySaved(inv[i].paperId) :
                    summaries[inv[i].paperId] = inv[j].acc)
  /\ [](\A k \in Keys :
          /\ Len(sessions[k].messages) % 2 = 0
          /\ Len(sessions[k].messages) =
               2 * Cardinality({i \in Invs : ChatInv(i) /\ Key(i) = k /\ Saved(i)}))
  /\ [](\A p \in StoredPapers :
          \/ summaries[p] = InitSummaries[p]
          \/ \E i \in SummarySaved(p) : summaries[p] = inv[i].acc)
  /\ \A i \in Invs : (conn.state = "closed" /\ InFlight(i)) ~> (inv[i].pc = "done")

\* The connection closed before a chat had emitted anything; the chat went
\* on, streamed two fragments to no one, and its exchange is stored.
C16_Witness ==
  \E i \in Invs :
    /\ conn.state = "closed"
    /\ ChatInv(i) /\ inv[i].pc = "done" /\ inv[i].err = Null
    /\ out[i] = <<>>
    /\ Len(inv[i].acc) = 2
    /\ HoldsExchange(sessions[Key(i)].messages, i)

\* Chat i is the only chat or clear on its session, its paper can be cached,
\* and the session it loaded was new: no handle and no messages.
FirstChat(i) ==
  /\ ChatInv(i)
  /\ inv[i].paperId \in StoredPapers /\ PaperCacheable[inv[i].paperId]
  /\ inv[i].loaded.name = None
  /\ \A j \in Invs : (j # i /\ inv[j].kind \in {"chat", "clear"}) => Key(j) # Key(i)

\* C17: a first chat on a cacheable paper that has completed has emitted
\* ai:chat:complete with the streamed answer as its last event, and its
\* session exists, holds exactly the user question and then the assistant
\* answer, and stores the one cache the provider created, whose expiry was
\* set at creation to the clock plus 3600 seconds.
C17_FirstChatScenario ==
  /\ [](\A i \in Invs :
          (FirstChat(i) /\ inv[i].pc = "done" /\ inv[i].err = Null
           /\ Len(inv[i].doc.messages) = 2) =>
            /\ sessions[Key(i)] # NoDoc
            /\ sessions[Key(i)].id = inv[i].doc.id
            /\ sessions[Key(i)].messages = Exchange(inv[i].message, inv[i].acc)
            /\ inv[i].acc = Concat(ChunksOf(i))
            /\ sessions[Key(i)].geminiCacheName # None
            /\ sessions[Key(i)].geminiCacheName = inv[i].cacheName
            /\ sessions[Key(i)].cacheExpiresAt = inv[i].doc.cacheExpiresAt
            /\ sessions[Key(i)].cacheExpiresAt >= CACHE_TTL_SECONDS
            /\ sessions[Key(i)].cacheExpiresAt <= now + CACHE_TTL_SECONDS
            /\ nextCache = 2
            /\ out[i][Len(out[i])] = Event("ai:chat:complete", inv[i].paperId, inv[i].acc))
  /\ [][\A i \in Invs :
          (inv[i].pc = "c_create" /\ inv'[i].pc = "c_cachesave") =>
            /\ inv'[i].doc.cacheExpiresAt = now + 3600
            /\ inv'[i].doc.geminiCacheName = inv'[i].cacheName
            /\ inv'[i].cacheName \in liveCaches' \ liveCaches]_vars

\* The first chat on p1, sent at time 2000, has completed after two
\* fragments: two messages, the cache stored, expiring at 5600.
C17_Witness ==
  \E i \in Invs :
    /\ FirstChat(i) /\ inv[i].pc = "done" /\ inv[i].err = Null
    /\ Len(ChunksOf(i)) = 2
    /\ Len(sessions[Key(i)].messages) = 2
    /\ sessions[Key(i)].geminiCacheName = 1
    /\ sessions[Key(i)].cacheExpiresAt = 5600
    /\ now = 2000

\* Chat i loaded a session whose stored handle it did not revalidate.
LoadedExpired(i) ==
  /\ ChatInv(i)
  /\ inv[i].loaded.name # None
  /\ inv[i].reval = "none"
  /\ inv[i].pc \notin {"idle", "paper", "c_find", "c_insert", "c_validate"}

\* C18: a chat that loads a session whose cacheExpiresAt has passed goes to
\* creation without a remote check of the old handle; the cache it creates is
\* a new one, with an expiry strictly later than the old one; its save stores
\* the new name and the new expiry together; and when the chat then completes
\* its exchange follows the messages it had loaded.
C18_ExpiredHandleReplaced ==
  /\ [](\A i \in Invs : LoadedExpired(i) =>
          /\ inv[i].pc = "c_create" =>
               (inv[i].doc.geminiCacheName = inv[i].loaded.name
                /\ inv[i].loaded.expiry <= now)
          /\ inv[i].cacheName # None =>
               /\ inv[i].cacheName # inv[i].loaded.name
               /\ inv[i].doc.geminiCacheName = inv[i].cacheName
               /\ inv[i].doc.cacheExpiresAt > inv[i].loaded.expiry
          /\ (inv[i].pc = "done" /\ inv[i].err = Null) =>
               /\ inv[i].cacheName # None
               /\ SubSeq(inv[i].doc.messages, Len(inv[i].doc.messages) - 1,
                         Len(inv[i].doc.messages)) = Exchange(inv[i].message, inv[i].acc)
               /\ Stored(sessions, Key(i), inv[i].doc) =>
                    HoldsExchange(sessions[Key(i)].messages, i)
               /\ out[i][Len(out[i])].ev = "ai:chat:complete")
  /\ [][\A i \in Invs :
          (inv[i].pc = "c_find" /\ sessions[Key(i)].geminiCacheName # None
           /\ sessions[Key(i)].cacheExpiresAt <= now) =>
            (inv'[i].pc \in {"c_find", "c_create"} /\ inv'[i].reval = "none")]_vars
  /\ [][\A i \in Invs :
          (LoadedExpired(i) /\ inv[i].pc = "c_cachesave" /\ inv'[i].pc = "c_fetch") =>
            /\ sessions'[Key(i)].geminiCacheName = inv[i].cacheName
            /\ sessions'[Key(i)].cacheExpiresAt = inv[i].doc.cacheExpiresAt
            /\ sessions'[Key(i)].cacheExpiresAt > inv[i].loaded.expiry
            /\ sessions'[Key(i)].messages = sessions[Key(i)].messages]_vars

\* A chat sent at time 4000 found the handle stored at time 0 expired,
\* replaced it without a remote check, and completed: the session stores the
\* second cache, expiring at 7600, and both exchanges.
C18_Witness ==
  \E i \in Invs :
    /\ LoadedExpired(i) /\ inv[i].pc = "done" /\ inv[i].err = Null
    /\ inv[i].loaded = [name |-> 1, expiry |-> 3600]
    /\ sessions[Key(i)].geminiCacheName = 2
    /\ sessions[Key(i)].cacheExpiresAt = 7600
    /\ Len(sessions[Key(i)].messages) = 4

\* geminiCacheName and cacheExpiresAt of a session document are both null or
\* both set.
CachePaired(doc) == (doc.geminiCacheName = None) <=> (doc.cacheExpiresAt = None)

\* C19: in every reachable state each stored session has geminiCacheName and
\* cacheExpiresAt both null or both non-null, and so has every session
\* document an invocation holds in memory and may still save.
C19_CacheFieldsPaired ==
  /\ \A k \in Keys : CachePaired(sessions[k])
  /\ \A i \in Invs : CachePaired(inv[i].doc)
  /\ \A i \in Invs : CachePaired([geminiCacheName |-> inv[i].loaded.name,
                                  cacheExpiresAt |-> inv[i].loaded.expiry])

\* A session stores a handle with its expiry while a chat whose remote check
\* of that handle failed holds the document with both fields nulled in
\* memory, not yet saved.
C19_Witness ==
  \E i \in Invs :
    /\ ChatInv(i) /\ inv[i].reval = "failed"
    /\ inv[i].doc.geminiCacheName = None /\ inv[i].doc.cacheExpiresAt = None
    /\ inv[i].dirty
    /\ sessions[Key(i)].geminiCacheName # None
    /\ sessions[Key(i)].cacheExpiresAt # None

\* C20: the handle getOrCreateCache returns is the one the loaded session
\* stored only if the remote check of that handle succeeded in this call,
\* which it does only at a moment when the provider holds the handle; after a
\* failed check, or with no check, the call returns a handle the provider
\* created for it, or null.
C20_ReuseOnlyAfterRemoteCheck ==
  /\ [](\A i \in Invs : (ChatInv(i) /\ inv[i].cacheName # None) =>
          /\ inv[i].cacheName = inv[i].loaded.name => inv[i].reval = "ok"
          /\ inv[i].reval = "ok" => inv[i].cacheName = inv[i].loaded.name
          /\ inv[i].reval # "ok" => inv[i].cacheName # inv[i].loaded.name)
  /\ [][\A i \in Invs :
          (inv'[i].reval = "ok" /\ inv[i].reval # "ok") =>
            /\ inv[i].pc = "c_validate"
            /\ inv[i].loaded.name \in liveCaches
            /\ inv'[i].cacheName = inv[i].loaded.name]_vars
  /\ [][\A i \in Invs :
          (inv[i].pc = "c_validate" /\ inv'[i].pc # "c_validate"
           /\ inv[i].loaded.name \notin liveCaches) =>
            (inv'[i].reval = "failed" /\ inv'[i].cacheName = None
             /\ inv'[i].pc = "c_create")]_vars

\* A chat loaded a handle whose expiry was still ahead, the provider had
\* dropped it, and the chat completed with a newly created handle.
C20_Witness ==
  \E i \in Invs :
    /\ ChatInv(i) /\ inv[i].reval = "failed" /\ inv[i].pc = "done" /\ inv[i].err = Null
    /\ inv[i].loaded.name = 1 /\ inv[i].loaded.expiry > now
    /\ inv[i].cacheName = 2
    /\ 1 \notin liveCaches

\* C21 as stated: once a chat whose remote check of the stored handle failed
\* has ended, whether it completed or failed, the session it loaded no longer
\* stores that handle.
C21_StaleHandleNotPersisted ==
  \A i \in Invs :
    (ChatInv(i) /\ inv[i].reval = "failed" /\ inv[i].pc = "done"
     /\ Stored(sessions, Key(i), inv[i].doc)) =>
      sessions[Key(i)].geminiCacheName # inv[i].loaded.name

\* C22: a rejection of the cache creation that is not 'too small' ends the
\* chat at once: the step emits the single event ai:chat:error, touches
\* neither the stored sessions nor the provider's caches, and the chat has
\* called no model: it has streamed nothing, holds no cache and never goes
\* on to the stream.
C22_CreateFailurePropagates ==
  /\ [](\A i \in Invs : inv[i].err = "cache create failed" =>
          /\ ChatInv(i) /\ inv[i].pc = "done"
          /\ inv[i].acc = <<>> /\ inv[i].cacheName = None
          /\ out[i] = <<Event("ai:chat:error", inv[i].paperId,
                              <<"Failed to process chat message">>)>>)
  /\ [][\A i \in Invs :
          (inv'[i].err = "cache create failed" /\ inv[i].err = Null) =>
            /\ inv[i].pc = "c_create"
            /\ UNCHANGED <<sessions, liveCaches, nextCache, summaries>>]_vars
  /\ [][\A i \in Invs :
          inv[i].err = "cache create failed" => inv'[i] = inv[i] /\ out'[i] = out[i]]_vars

\* The remote check of a stored handle failed, the creation was then rejected,
\* and the chat ended with one error event while the session keeps its cache
\* fields as they were.
C22_Witness ==
  \E i \in Invs :
    /\ ChatInv(i) /\ inv[i].err = "cache create failed" /\ inv[i].reval = "failed"
    /\ Len(out[i]) = 1
    /\ sessions[Key(i)].geminiCacheName = inv[i].loaded.name
    /\ sessions[Key(i)].cacheExpiresAt = inv[i].loaded.expiry

\* The step in which chat i emits ai:chat:complete.
Completes(i) == ChatInv(i) /\ inv[i].pc = "saved" /\ inv'[i].pc = "done"

\* C23 as stated: at the moment a chat emits ai:chat:complete the stored
\* session holds its user message directly followed by its assistant reply.
C23_StoredAtCompletion ==
  [][\A i \in Invs : Completes(i) => HoldsExchange(sessions[Key(i)].messages, i)]_vars

\* C23, amended: ai:chat:complete is emitted only after the save that appends
\* the exchange was applied; that save left the user message directly
\* followed by the assistant reply in the stored session, the reply being the
\* event's response; and at the moment of the event the stored session still
\* holds them unless a clear has removed the session in between.
C23_CompleteAfterSave ==
  /\ [](\A i \in Invs : \A n \in 1..Len(out[i]) :
          (ChatInv(i) /\ out[i][n].ev = "ai:chat:complete") =>
            /\ inv[i].pc = "done" /\ inv[i].err = Null
            /\ out[i][n].data = inv[i].acc
            /\ Len(inv[i].doc.messages) >= 2
            /\ SubSeq(inv[i].doc.messages, Len(inv[i].doc.messages) - 1,
                      Len(inv[i].doc.messages)) = Exchange(inv[i].message, inv[i].acc))
  /\ [][\A i \in Invs :
          (ChatInv(i) /\ inv'[i].pc = "saved" /\ inv[i].pc # "saved") =>
            /\ inv[i].pc = "save"
            /\ Stored(sessions, Key(i), inv[i].doc)
            /\ HoldsExchange(sessions'[Key(i)].messages, i)
            /\ out'[i] = out[i]]_vars
  /\ [][\A i \in Invs :
          Completes(i) =>
            /\ out'[i] = Append(out[i], Event("ai:chat:complete", inv[i].paperId, inv[i].acc))
            /\ Stored(sessions, Key(i), inv[i].doc) =>
                 HoldsExchange(sessions[Key(i)].messages, i)]_vars

\* A chat's save was applied and its completion is about to be emitted, but
\* a clear has deleted the session in between.
C23_Witness ==
  \E i, x \in Invs :
    /\ ChatInv(i) /\ inv[i].pc = "saved"
    /\ inv[x].kind = "clear" /\ Key(x) = Key(i) /\ inv[x].pc \in {"x_deleted", "done"}
    /\ inv[x].err = Null
    /\ sessions[Key(i)] = NoDoc

IsPrefix(s, t) == Len(s) <= Len(t) /\ SubSeq(t, 1, Len(s)) = s

\* C26: in every step that does not delete a session record, the record's
\* stored message list before the step is a prefix of the list after it: no
\* stored entry is removed, reordered or rewritten, also when two chats that
\* loaded the same list save one after the other; and a list shrinks only in
\* the deleteOne of a clear.
C26_MessagesAppendOnly ==
  /\ [][\A k \in Keys :
          sessions'[k] # NoDoc =>
            \/ sessions[k] = NoDoc /\ sessions'[k].messages = <<>>
            \/ /\ sessions[k] # NoDoc /\ sessions'[k].id = sessions[k].id
               /\ IsPrefix(sessions[k].messages, sessions'[k].messages)]_vars
  /\ [][\A k \in Keys :
          (sessions[k] # NoDoc /\ sessions'[k] = NoDoc) =>
            \E x \in Invs : /\ inv[x].kind = "clear" /\ Key(x) = k
                            /\ inv[x].pc = "x_delete" /\ inv'[x].pc = "x_deleted"]_vars

\* Two chats loaded the empty session; the second one saved first, the first
\* one's exchange was appended behind it.
C26_Witness ==
  /\ ChatInv(1) /\ ChatInv(2) /\ Key(1) = Key(2)
  /\ Saved(1) /\ Saved(2)
  /\ Len(inv[1].doc.messages) = 2 /\ Len(inv[2].doc.messages) = 2
  /\ sessions[Key(1)].messages =
       Exchange(inv[2].message, inv[2].acc) \o Exchange(inv[1].message, inv[1].acc)

\* Roles alternate in `ms`, starting with `first`, `second` following.
Alternates(ms, field, first, second) ==
  \A n \in 1..Len(ms) : ms[n][field] = (IF n % 2 = 1 THEN first ELSE second)

\* Chat i is handing its history and its message to the model.
AtModel(i) == ChatInv(i) /\ inv[i].pc = "stream"

\* C27 as stated: the history a chat replays to the model is the stored
\* message list of its session, entry for entry.
C27_ReplaysStoredList ==
  \A i \in Invs : (AtModel(i) /\ Stored(sessions, Key(i), inv[i].doc)) =>
    /\ Len(ModelContext(i).history) = Len(sessions[Key(i)].messages)
    /\ \A n \in 1..Len(ModelContext(i).history) :
         ModelContext(i).history[n].text = sessions[Key(i)].messages[n].content

\* C27, amended: every stored message list alternates user, assistant, ...
\* starting with user; the history a chat replays to the model is the list
\* its session held when the chat loaded it, entry for entry in stored order
\* with assistant sent as model, and the chat's own message is sent last;
\* that list is a prefix of the stored one for as long as the session is
\* not cleared, shorter than it when another chat has saved since the load.
C27_AlternationAndReplay ==
  /\ \A k \in Keys : Alternates(sessions[k].messages, "role", "user", "assistant")
  /\ \A i \in Invs : AtModel(i) =>
       /\ Alternates(ModelContext(i).history, "role", "user", "model")
       /\ Len(ModelContext(i).history) % 2 = 0
       /\ ModelContext(i).message = inv[i].message
       /\ Stored(sessions, Key(i), inv[i].doc) =>
            /\ Len(ModelContext(i).history) <= Len(sessions[Key(i)].messages)
            /\ \A n \in 1..Len(ModelContext(i).history) :
                 ModelContext(i).history[n].text = sessions[Key(i)].messages[n].content

\* A chat is replaying the one exchange its session held when it loaded it,
\* and the session still holds exactly that exchange.
C27_Witness ==
  \E i \in Invs :
    /\ AtModel(i) /\ Stored(sessions, Key(i), inv[i].doc)
    /\ Len(ModelContext(i).history) = 2
    /\ ModelContext(i).history[1].role = "user"
    /\ ModelContext(i).history[2].role = "model"
    /\ ModelContext(i).history[2].text = sessions[Key(i)].messages[2].content
    /\ Len(sessions[Key(i)].messages) = 2

\* The provider caches no stored session names.
Unreferenced == {c \in liveCaches : \A k \in Keys : sessions[k].geminiCacheName # c}

\* C28: once the chats have ended, every cache that is live at the provider
\* is named by the geminiCacheName of a stored session; here for two chats
\* that both ended without an error.
C28_NoUnreferencedCache ==
  (\A i \in Invs : ChatInv(i) /\ inv[i].pc = "done" /\ inv[i].err = Null)
    => Unreferenced = {}

\* --------------------------- a session with history, chats and clears

\* The session u1 has on p1 from an earlier connection: one exchange, and the
\* cache that chat created at time 0, still live.
PriorSession ==
  [id |-> 1, geminiCacheName |-> 1, cacheExpiresAt |-> ExpiryFrom(0),
   messages |-> Exchange(<<"q0">>, <<"a0">>)]

\* u1 connects again with that session stored.
InitClear ==
  /\ conn = [state |-> "connecting", token |-> [kind |-> "valid", userId |-> "u1"],
             user |-> Null, handlerUser |-> Null, error |-> Null]
  /\ inv = [i \in Invs |-> IdleInv]
  /\ out = [i \in Invs |-> <<>>]
  /\ sessions = [k \in Keys |-> IF k = <<"p1", "u1">> THEN PriorSession ELSE NoDoc]
  /\ nextSid = 2
  /\ summaries = InitSummaries
  /\ liveCaches = {1}
  /\ nextCache = 2
  /\ now = 0
  /\ rag = RagInit
  /\ client = ClientInit(TRUE)

\* ai:chat, ai:chat:history and ai:chat:clear events for p1 on that connection.
NextClear ==
  \/ Authenticate
  \/ OnConnection
  \/ \E i \in Invs, k \in {"chat", "history", "clear"} : Start(i, k, "p1", << <<"q1", "q2", "q3", "q4">>[i] >>)
  \/ \E i \in Invs : PaperLookup(i)
  \/ \E i \in Invs : SessionFind(i)
  \/ \E i \in Invs : SessionCreate(i)
  \/ \E i \in Invs : Revalidate(i)
  \/ \E i \in Invs : CacheCreate(i)
  \/ \E i \in Invs : CacheSave(i)
  \/ \E i \in Invs : CacheFetch(i)
  \/ \E i \in Invs : StreamChunk(i)
  \/ \E i \in Invs : StreamFail(i)
  \/ \E i \in Invs : StreamEnd(i)
  \/ \E i \in Invs : ChatSave(i)
  \/ \E i \in Invs : Complete(i)
  \/ \E i \in Invs : HistoryFind(i)
  \/ \E i \in Invs : HistoryRespond(i)
  \/ \E i \in Invs : ClearFind(i)
  \/ \E i \in Invs : ClearRemote(i)
  \/ \E i \in Invs : ClearDelete(i)
  \/ \E i \in Invs : ClearRespond(i)
  \/ Tick
  \/ \E c \in CacheNames : Evict(c)

SpecClear == InitClear /\ [][NextClear]_vars

\* A clear of key k has deleted the session record.
Cleared(k) ==
  \E j \in Invs : /\ inv[j].kind = "clear" /\ Key(j) = k
                  /\ inv[j].pc \in {"x_deleted", "done"} /\ inv[j].err = Null

\* The ids of the records the completed clears of key k found.
ClearedIds(k) ==
  {inv[j].doc.id : j \in {j \in Invs : /\ inv[j].kind = "clear" /\ Key(j) = k
                                         /\ inv[j].pc \in {"x_deleted", "done"}
                                         /\ inv[j].err = Null}}

\* Every entry of `ms` is the question or the answer of a chat on key k that
\* holds the record with _id `id`.
OwnEntriesOnly(ms, k, id) ==
  \A n \in 1..Len(ms) :
    \E i \in Invs : /\ ChatInv(i) /\ Key(i) = k /\ inv[i].doc.id = id
                    /\ ms[n] \in {Exchange(inv[i].message, inv[i].acc)[1],
                                  Exchange(inv[i].message, inv[i].acc)[2]}

\* Chat i holds a session record that is no longer stored.
HoldsDeleted(i) ==
  ChatInv(i) /\ inv[i].doc.id # None /\ ~Stored(sessions, Key(i), inv[i].doc)

\* C29: once a clear of a key has deleted the record, the key has no record,
\* or a record with a new _id whose messages are only the exchanges of chats
\* that loaded that new record, so nothing from before the clear is stored
\* or returned by getChatHistory; and a save by a chat that still holds the
\* deleted record changes no record and ends the chat in ai:chat:error.
C29_ClearedHistoryStaysCleared ==
  /\ [](\A k \in Keys : Cleared(k) =>
          \/ sessions[k] = NoDoc
          \/ /\ sessions[k].id \notin ClearedIds(k)
             /\ OwnEntriesOnly(sessions[k].messages, k, sessions[k].id))
  /\ [][\A i \in Invs :
          (HoldsDeleted(i) /\ inv[i].pc \in {"c_cachesave", "save"} /\ inv'[i].pc # inv[i].pc) =>
            /\ sessions' = sessions
            /\ inv'[i].pc = "done" /\ inv'[i].err # Null
            /\ out'[i] = Append(out[i], Event("ai:chat:error", inv[i].paperId,
                                               <<CatchMessage("chat")>>))]_vars
  /\ [][\A h \in Invs :
          (inv[h].pc = "h_find" /\ inv'[h].pc = "h_found" /\ Cleared(Key(h))) =>
            OwnEntriesOnly(inv'[h].doc.messages, Key(h), sessions[Key(h)].id)]_vars

\* A chat loaded the session with its earlier exchange, a clear of the same
\* key then deleted the record, and the chat's final save was rejected: the
\* chat ended in ai:chat:error and the key has no record.
C29_Witness ==
  \E i, j \in Invs :
    /\ ChatInv(i) /\ inv[i].pc = "done" /\ inv[i].err = "document not found"
    /\ inv[i].doc.id = PriorSession.id
    /\ inv[i].doc.messages = PriorSession.messages
    /\ inv[i].acc # <<>>
    /\ inv[j].kind = "clear" /\ Key(j) = Key(i) /\ inv[j].pc = "done" /\ inv[j].err = Null
    /\ sessions[Key(i)] = NoDoc
    /\ out[i][Len(out[i])].ev = "ai:chat:error"

\* ============================================ the retrieval-index controller

\* Whether a save() of `doc` finds its stored document.
RagStored(r, p, doc) == r.sessions[p] # RagNoDoc /\ r.sessions[p].id = doc.id

\* The catch blocks' messages.
RagCatchMessage(kind) ==
  CASE kind = "chat" -> "Failed to process chat message"
    [] kind = "define" -> "Failed to define term"
    [] kind = "history" -> "Failed to get chat history"
    [] OTHER -> "Failed to clear chat history"

\* callbacks.onChunk / onComplete / onError, or the value a function returns.
RagEmit(r, i, ev, data) == [r EXCEPT !.out[i] = Append(@, [ev |-> ev, data |-> data])]

\* An invocation ends in onError(message), or in a returned {error}.
RagFail(r, i, cause, message) ==
  RagEmit([r EXCEPT !.inv[i].pc = "done", !.inv[i].err = cause], i, "error", <<message>>)

RagThrown(r, i, cause) == RagFail(r, i, cause, RagCatchMessage(r.inv[i].kind))

\* A call of chatWithPaperStream, defineTermStream, getChatHistory or
\* clearChatHistory for RagUser; calls are numbered in the order they are made.
RagStart(i, kind, p) ==
  /\ rag.inv[i].kind = "idle"
  /\ \A j \in Invs : j < i => rag.inv[j].kind # "idle"
  /\ rag' = [rag EXCEPT !.inv[i] =
       [RagIdle EXCEPT !.kind = kind, !.paperId = p,
                       !.message = IF kind = "chat" THEN << <<"q1", "q2", "q3", "q4">>[i] >>
                                   ELSE IF kind = "define" THEN <<"term">> ELSE <<>>,
                       !.pc = CASE kind \in {"chat", "define"} -> "paper"
                                [] kind = "history" -> "h_find"
                                [] OTHER -> "x_find"]]
  /\ UNCHANGED <<serverVars, client>>

\* getPaperForAI as chatWithPaperStream and defineTermStream call it.
RagPaperLookup(i) ==
  /\ rag.inv[i].pc = "paper"
  /\ LET p == rag.inv[i].paperId
         found == p \in StoredPapers /\ PaperOwner[p] = RagUser
     IN  \/ /\ ~found
            /\ rag' = RagFail(rag, i, "Paper not found", "Paper not found")
         \/ /\ found /\ ~PaperHasFile[p]
            /\ rag' = RagFail(rag, i, "Paper has no PDF file", "Paper has no PDF file")
         \/ /\ found /\ PaperHasFile[p]
            /\ \/ rag' = [rag EXCEPT !.inv[i].pc =
                            IF rag.inv[i].kind = "chat" THEN "r_find" ELSE "d_find"]
               \/ rag' = RagThrown(rag, i, "storage failed")
  /\ UNCHANGED <<serverVars, client>>

\* ------------------------------------------------------ ensurePaperIndexed

\* getOrCreateChatSession's findOne, then the isIndexed test on what it found.
EnsureSessionFind(i) ==
  /\ rag.inv[i].pc = "r_find"
  /\ LET p == rag.inv[i].paperId
     IN  \/ rag' = IF rag.sessions[p] = RagNoDoc
                   THEN [rag EXCEPT !.inv[i].pc = "r_insert"]
                   ELSE [rag EXCEPT !.inv[i].doc = rag.sessions[p],
                                    !.inv[i].pc = IF rag.sessions[p].isIndexed
                                                  THEN "r_search" ELSE "r_paper"]
         \/ rag' = RagThrown(rag, i, "storage failed")
  /\ UNCHANGED <<serverVars, client>>

\* getOrCreateChatSession's create; the unique index rejects a second document.
EnsureSessionCreate(i) ==
  /\ rag.inv[i].pc = "r_insert"
  /\ LET p == rag.inv[i].paperId
     IN  rag' = IF rag.sessions[p] = RagNoDoc
                THEN [rag EXCEPT !.sessions[p] = RagNewSessionDoc(rag.nextSid),
                                 !.nextSid = @ + 1,
                                 !.inv[i].doc = RagNewSessionDoc(rag.nextSid),
                                 !.inv[i].pc = "r_paper"]
                ELSE RagThrown(rag, i, "duplicate key")
  /\ UNCHANGED <<serverVars, client>>

\* Paper.findOne({_id: paperId, userId}) of ensurePaperIndexed.
EnsurePaperFind(i) ==
  /\ rag.inv[i].pc = "r_paper"
  /\ \/ rag' = [rag EXCEPT !.inv[i].pc = "r_pdf"]
     \/ rag' = RagThrown(rag, i, "storage failed")
  /\ UNCHANGED <<serverVars, client>>

\* processPdf(paper.fileUrl, ..)
ProcessPdf(i) ==
  /\ rag.inv[i].pc = "r_pdf"
  /\ \/ rag' = [rag EXCEPT !.inv[i].pc = "r_index"]
     \/ rag' = RagThrown(rag, i, "pdf failed")
  /\ UNCHANGED <<serverVars, client>>

\* indexDocuments(chunks, namespace): PineconeStore.fromDocuments adds the
\* passages to the paper's namespace, or the provider rejects.
IndexDocuments(i) ==
  /\ rag.inv[i].pc = "r_index"
  /\ LET p == rag.inv[i].paperId
         id == rag.inv[i].doc.id
     IN  \/ rag' = [rag EXCEPT !.vectors[p] = @ + 1, !.upserts[id] = @ + 1,
                               !.inv[i].pc = "r_flag"]
         \/ rag' = RagThrown(rag, i, "index failed")
  /\ UNCHANGED <<serverVars, client>>

\* session.isIndexed = true; await session.save()
SetIndexed(i) ==
  /\ rag.inv[i].pc = "r_flag"
  /\ LET p == rag.inv[i].paperId
     IN  rag' = IF RagStored(rag, p, rag.inv[i].doc)
                THEN [rag EXCEPT !.sessions[p].isIndexed = TRUE,
                                 !.inv[i].doc.isIndexed = TRUE,
                                 !.inv[i].pc = "r_search"]
                ELSE RagThrown(rag, i, "document not found")
  /\ UNCHANGED <<serverVars, client>>

\* ----------------------------------------------------- chatWithPaperStream

\* getVectorStore(namespace) and similaritySearch(message, 5).
SimilaritySearch(i) ==
  /\ rag.inv[i].pc = "r_search"
  /\ \/ rag' = [rag EXCEPT !.inv[i].context = rag.vectors[rag.inv[i].paperId] > 0,
                           !.inv[i].pc = "stream"]
     \/ rag' = RagThrown(rag, i, "search failed")
  /\ UNCHANGED <<serverVars, client>>

\* for await (const chunk of stream): accumulate, then onChunk.
RagStreamChunk(i) ==
  /\ rag.inv[i].pc = "stream"
  /\ Len(rag.inv[i].acc) < MaxChunks
  /\ LET c == <<ModelChunks[Len(rag.inv[i].acc) + 1]>>
     IN  rag' = RagEmit([rag EXCEPT !.inv[i].acc = @ \o c], i, "chunk", c)
  /\ UNCHANGED <<serverVars, client>>

\* chain.stream or the iteration rejects.
RagStreamFail(i) ==
  /\ rag.inv[i].pc = "stream"
  /\ rag' = RagThrown(rag, i, "model failed")
  /\ UNCHANGED <<serverVars, client>>

\* The stream ends: the chat pushes the exchange and awaits save(); the
\* definition is handed to onComplete at once.
RagStreamEnd(i) ==
  /\ rag.inv[i].pc = "stream"
  /\ rag' = IF rag.inv[i].kind = "chat"
            THEN [rag EXCEPT !.inv[i].pc = "save"]
            ELSE RagEmit([rag EXCEPT !.inv[i].pc = "done"], i, "complete", rag.inv[i].acc)
  /\ UNCHANGED <<serverVars, client>>

\* session.messages.push(user, assistant); await session.save()
RagChatSave(i) ==
  /\ rag.inv[i].pc = "save"
  /\ LET p == rag.inv[i].paperId
         pushed == Exchange(rag.inv[i].message, rag.inv[i].acc)
     IN  rag' = IF ~ValidMessages(pushed)
                THEN RagThrown(rag, i, "validation failed")
                ELSE IF ~RagStored(rag, p, rag.inv[i].doc)
                THEN RagThrown(rag, i, "document not found")
                ELSE [rag EXCEPT !.sessions[p].messages = @ \o pushed,
                                 !.inv[i].doc.messages = @ \o pushed,
                                 !.inv[i].pc = "saved"]
  /\ UNCHANGED <<serverVars, client>>

\* callbacks.onComplete(fullResponse)
RagComplete(i) ==
  /\ rag.inv[i].pc = "saved"
  /\ rag' = RagEmit([rag EXCEPT !.inv[i].pc = "done"], i, "complete", rag.inv[i].acc)
  /\ UNCHANGED <<serverVars, client>>

\* -------------------------------------------------------- defineTermStream

\* Faulty variant: the definition loads its session with getOrCreateChatSession.
DefineSessionFind_Creates(i) ==
  /\ rag.inv[i].pc = "d_find"
  /\ LET p == rag.inv[i].paperId
     IN  \/ rag' = IF rag.sessions[p] = RagNoDoc
                   THEN [rag EXCEPT !.sessions[p] = RagNewSessionDoc(rag.nextSid),
                                    !.nextSid = @ + 1,
                                    !.inv[i].pc = "stream"]
                   ELSE [rag EXCEPT !.inv[i].pc = IF rag.sessions[p].isIndexed
                                                  THEN "d_search" ELSE "stream"]
         \/ rag' = RagThrown(rag, i, "storage failed")
  /\ UNCHANGED <<serverVars, client>>

\* ChatSession.findOne({paperId, userId}) and the session?.isIndexed test.
DefineSessionFind(i) ==
  /\ rag.inv[i].pc = "d_find"
  /\ LET p == rag.inv[i].paperId
     IN  \/ rag' = [rag EXCEPT !.inv[i].pc = IF rag.sessions[p].isIndexed
                                             THEN "d_search" ELSE "stream"]
         \/ rag' = RagThrown(rag, i, "storage failed")
  /\ UNCHANGED <<serverVars, client>>

\* similaritySearch(term, 3) inside a try with an empty catch: the passages
\* found are added to the prompt, or the search rejects and nothing is added.
DefineSearch(i) ==
  /\ rag.inv[i].pc = "d_search"
  /\ \/ rag' = [rag EXCEPT !.inv[i].context = rag.vectors[rag.inv[i].paperId] > 0,
                           !.inv[i].pc = "stream"]
     \/ rag' = [rag EXCEPT !.inv[i].pc = "stream"]
  /\ UNCHANGED <<serverVars, client>>

\* ---------------------------------------------------------- getChatHistory

\* ChatSession.findOne, then {messages: session?.messages || []}, or {error}.
RagGetChatHistory(i) ==
  /\ rag.inv[i].pc = "h_find"
  /\ \/ rag' = RagEmit([rag EXCEPT !.inv[i].pc = "done"], i, "messages",
                       rag.sessions[rag.inv[i].paperId].messages)
     \/ rag' = RagThrown(rag, i, "storage failed")
  /\ UNCHANGED <<serverVars, client>>

\* -------------------------------------------------------- clearChatHistory

\* ChatSession.findOne({paperId, userId}), or the store rejects.
RagClearFind(i) ==
  /\ rag.inv[i].pc = "x_find"
  /\ LET p == rag.inv[i].paperId
     IN  \/ rag' = [rag EXCEPT !.inv[i].doc = rag.sessions[p],
                               !.inv[i].pc = IF rag.sessions[p].isIndexed
                                             THEN "x_remote" ELSE "x_delete"]
         \/ rag' = RagThrown(rag, i, "storage failed")
  /\ UNCHANGED <<serverVars, client>>

\* deleteNamespace(namespace) in its own try with an empty catch.
DeleteNamespace(i) ==
  /\ rag.inv[i].pc = "x_remote"
  /\ \/ rag' = [rag EXCEPT !.vectors[rag.inv[i].paperId] = 0, !.inv[i].pc = "x_delete"]
     \/ rag' = [rag EXCEPT !.inv[i].pc = "x_delete"]
  /\ UNCHANGED <<serverVars, client>>

\* ChatSession.deleteOne({paperId, userId}) and {success: true}, or {error}.
RagClearDelete(i) ==
  /\ rag.inv[i].pc = "x_delete"
  /\ \/ rag' = RagEmit([rag EXCEPT !.sessions[rag.inv[i].paperId] = RagNoDoc,
                                   !.inv[i].pc = "done"], i, "success", <<>>)
     \/ rag' = RagThrown(rag, i, "storage failed")
  /\ UNCHANGED <<serverVars, client>>

\* The gateway is idle while the retrieval-index controller is exercised.
InitRag ==
  /\ conn = [state |-> "connecting", token |-> [kind |-> "valid", userId |-> RagUser],
             user |-> Null, handlerUser |-> Null, error |-> Null]
  /\ inv = [i \in Invs |-> IdleInv]
  /\ out = [i \in Invs |-> <<>>]
  /\ sessions = [k \in Keys |-> NoDoc]
  /\ nextSid = 1
  /\ summaries = InitSummaries
  /\ liveCaches = {}
  /\ nextCache = 1
  /\ now = 0
  /\ rag = RagInit
  /\ client = ClientInit(TRUE)

NextRag ==
  \/ \E i \in Invs, k \in {"chat", "define", "history", "clear"}, p \in RagPapers : RagStart(i, k, p)
  \/ \E i \in Invs : RagPaperLookup(i)
  \/ \E i \in Invs : EnsureSessionFind(i)
  \/ \E i \in Invs : EnsureSessionCreate(i)
  \/ \E i \in Invs : EnsurePaperFind(i)
  \/ \E i \in Invs : ProcessPdf(i)
  \/ \E i \in Invs : IndexDocuments(i)
  \/ \E i \in Invs : SetIndexed(i)
  \/ \E i \in Invs : SimilaritySearch(i)
  \/ \E i \in Invs : RagStreamChunk(i)
  \/ \E i \in Invs : RagStreamFail(i)
  \/ \E i \in Invs : RagStreamEnd(i)
  \/ \E i \in Invs : RagChatSave(i)
  \/ \E i \in Invs : RagComplete(i)
  \/ \E i \in Invs : DefineSessionFind(i)
  \/ \E i \in Invs : DefineSearch(i)
  \/ \E i \in Invs : RagGetChatHistory(i)
  \/ \E i \in Invs : RagClearFind(i)
  \/ \E i \in Invs : DeleteNamespace(i)
  \/ \E i \in Invs : RagClearDelete(i)

SpecRag == InitRag /\ [][NextRag]_vars

\* C24: for every session record, indexDocuments has been called at most
\* once on its behalf.
C24_IndexedAtMostOnce == \A id \in 1..MaxInv : rag.upserts[id] <= 1

\* Nothing about invocation i changes in this step.
RagIdleStep(i) == rag'.inv[i] = rag.inv[i]

\* C25: no step of a defineTermStream or getChatHistory call, whether it
\* succeeds or fails, changes the ChatSession collection; a history call on
\* a key with no session returns the empty list.
C25_DefineAndHistoryReadOnly ==
  /\ [][\A i \in Invs :
          (rag.inv[i].kind \in {"define", "history"} /\ ~RagIdleStep(i)) =>
             /\ rag'.sessions = rag.sessions
             /\ rag'.nextSid = rag.nextSid]_vars
  /\ [][\A i \in Invs, p \in RagPapers, k \in {"define", "history"} :
          RagStart(i, k, p) => rag'.sessions = rag.sessions]_vars
  /\ [][\A i \in Invs :
          (/\ rag.inv[i].pc = "h_find" /\ rag'.inv[i].err = Null /\ ~RagIdleStep(i)
           /\ rag.sessions[rag.inv[i].paperId] = RagNoDoc) =>
             /\ rag'.out[i] = <<[ev |-> "messages", data |-> <<>>]>>
             /\ rag'.sessions[rag.inv[i].paperId] = RagNoDoc]_vars

\* A definition has been streamed to its end and a history call has returned
\* the empty list for a paper that has no session, and none was created.
C25_Witness ==
  \E i, h \in Invs :
    /\ rag.inv[i].kind = "define" /\ rag.inv[i].pc = "done" /\ rag.inv[i].err = Null
    /\ rag.inv[i].acc # <<>>
    /\ rag.inv[h].kind = "history" /\ rag.inv[h].pc = "done" /\ rag.inv[h].err = Null
    /\ rag.inv[h].paperId = rag.inv[i].paperId
    /\ rag.out[h] = <<[ev |-> "messages", data |-> <<>>]>>
    /\ rag.sessions = RagInit.sessions

\* ================================================ the client's SocketManager

\* A socket that io() has opened and that is connected or still trying to be:
\* socket.io keeps retrying a socket whose transport failed or dropped.
Alive(s) == client.socks[s] \in {"connecting", "connected"}
AliveSockets == {s \in SockIds : Alive(s)}

\* resolve / reject of the promise of socket s's attempt: a settled promise
\* stays as it is.
Settle(ps, s, state, value) ==
  [n \in 1..Len(ps) |->
     IF ps[n].attempt = s /\ ps[n].state = "pending"
     THEN [ps[n] EXCEPT !.state = state, !.value = value]
     ELSE ps[n]]

\* connect(): the connected socket, the pending promise, or a new attempt.
\* The executor of new Promise runs before the promise is assigned to
\* connectionPromise.
Connect ==
  /\ Len(client.returned) < MaxCalls
  /\ LET n == Len(client.promises) + 1
     IN  IF client.socket # None /\ client.socks[client.socket] = "connected"
         THEN client' = [client EXCEPT
                !.promises = Append(@, [state |-> "resolved", attempt |-> None,
                                        value |-> client.socket]),
                !.returned = Append(@, n)]
         ELSE IF client.connectionPromise # None
         THEN client' = [client EXCEPT !.returned = Append(@, client.connectionPromise)]
         ELSE IF ~client.token
         THEN client' = [client EXCEPT
                !.promises = Append(@, [state |-> "rejected", attempt |-> None,
                                        value |-> None]),
                !.connectionPromise = n,
                !.returned = Append(@, n)]
         ELSE \E s \in SockIds :
                /\ client.socks[s] = "none"
                /\ \A t \in SockIds : t < s => client.socks[t] # "none"
                /\ client' = [client EXCEPT
                     !.socket = s,
                     !.socks[s] = "connecting",
                     !.promises = Append(@, [state |-> "pending", attempt |-> s,
                                             value |-> None]),
                     !.connectionPromise = n,
                     !.returned = Append(@, n)]
  /\ UNCHANGED <<serverVars, rag>>

\* Socket s connects (for the first time or again): its 'connect' listener
\* clears connectionPromise and resolves its attempt with this.socket.
OnConnect(s) ==
  /\ client.socks[s] = "connecting"
  /\ client' = [client EXCEPT
       !.socks[s] = "connected",
       !.connectionPromise = None,
       !.promises = Settle(@, s, "resolved", client.socket)]
  /\ UNCHANGED <<serverVars, rag>>

\* Socket s reports connect_error: its listener clears connectionPromise and
\* rejects its attempt.  After a transport failure the socket stays active
\* and retries; after a refusal by the server's middleware it is closed.
OnConnectError(s) ==
  /\ client.socks[s] = "connecting"
  /\ \E after \in {"connecting", "closed"} :
       client' = [client EXCEPT
         !.socks[s] = after,
         !.connectionPromise = None,
         !.promises = Settle(@, s, "rejected", None)]
  /\ UNCHANGED <<serverVars, rag>>

\* The transport of a connected socket drops; socket.io starts to reconnect.
\* SocketManager has no 'disconnect' listener.
Drop(s) ==
  /\ client.socks[s] = "connected"
  /\ client' = [client EXCEPT !.socks[s] = "connecting"]
  /\ UNCHANGED <<serverVars, rag>>

\* disconnect(): closes this.socket and clears both fields; nothing when
\* this.socket is null.
ManagerDisconnect ==
  /\ client' = IF client.socket # None
               THEN [client EXCEPT !.socks[client.socket] = "closed",
                                   !.socket = None,
                                   !.connectionPromise = None]
               ELSE client
  /\ UNCHANGED <<serverVars, rag>>

\* The page has loaded: localStorage holds a token or not.
InitClient ==
  /\ conn = [state |-> "connecting", token |-> [kind |-> "valid", userId |-> "u1"],
             user |-> Null, handlerUser |-> Null, error |-> Null]
  /\ inv = [i \in Invs |-> IdleInv]
  /\ out = [i \in Invs |-> <<>>]
  /\ sessions = [k \in Keys |-> NoDoc]
  /\ nextSid = 1
  /\ summaries = InitSummaries
  /\ liveCaches = {}
  /\ nextCache = 1
  /\ now = 0
  /\ rag = RagInit
  /\ client \in {ClientInit(t) : t \in BOOLEAN}

NextClient ==
  \/ Connect
  \/ \E s \in SockIds : OnConnect(s)
  \/ \E s \in SockIds : OnConnectError(s)
  \/ \E s \in SockIds : Drop(s)
  \/ ManagerDisconnect

SpecClient == InitClient /\ [][NextClient]_vars

\* C30: of the sockets the manager has opened, at most one is alive.
C30_AtMostOneSocket == Cardinality(AliveSockets) <= 1

====
